---------------------------- MODULE Spec2Model ----------------------------
(***************************************************************************)
(* A model of the blog backend's Markdown pipeline (src/backend/markdown.rs)*)
(* Strings are TLA+ strings, i.e. sequences of characters: Len, SubSeq and  *)
(* \o are the only string primitives used; a "character" is a string of     *)
(* length one.                                                              *)
(***************************************************************************)
EXTENDS Integers, Sequences, FiniteSets, TLC

VARIABLES
    pc,             \* position of the render call: which stage runs next
    content,        \* the raw Markdown handed to the operation
    processed,      \* render: output of preprocess_obsidian_syntax
    parser,         \* render: the parser iterator, its events and its position
    events,         \* render: the Vec<Event> built by the re-emission loop
    in_code_block,  \* render: the loop's flag
    code_lang,      \* render: the loop's language string
    html_output,    \* render: the HTML string, stage after stage
    called,         \* the stages (render) or utility functions run so far, in order
    tags,           \* utilities: the Vec returned by extract_tags
    links,          \* utilities: the Vec returned by extract_links
    max_length,     \* utilities: the second argument of extract_excerpt
    result,         \* utilities: the value returned by the function called
    calls,          \* concurrent calls (render, request handlers): the locals of each
    posts,          \* the rows of the table posts, by id
    now             \* the clock that Utc::now() reads

vars == <<pc, content, processed, parser, events, in_code_block, code_lang,
          html_output, called, tags, links, max_length, result, calls, posts, now>>

---------------------------------------------------------------------------
(* Bounds of the model.                                                    *)

\* inputs of the utility functions: at most this many pieces of UtilPieces
MaxUtilPieces == 2
\* documents rendered: at most this many pieces of RenderPieces
MaxRenderPieces == 2

---------------------------------------------------------------------------
(* Strings and characters.                                                 *)

Ch(s, i) == SubSeq(s, i, i)
CharSet(str) == {Ch(str, i) : i \in 1..Len(str)}
LowerStr == "abcdefghijklmnopqrstuvwxyz"
UpperStr == "ABCDEFGHIJKLMNOPQRSTUVWXYZ"
Lower == CharSet(LowerStr)
Upper == CharSet(UpperStr)
Digit == CharSet("0123456789")
Letter == Lower \cup Upper
AlphaNum == Letter \cup Digit
\* the characters the regex crate's \s and char::is_whitespace accept (ASCII part)
Space == {" ", "\n", "\t", "\r"}

Min(S) == CHOOSE m \in S : \A n \in S : m <= n
Max(S) == CHOOSE m \in S : \A n \in S : m >= n

\* Strict(v, F): F applied to the value of v, which is computed once
Strict(v, F(_)) == CHOOSE r \in {F(x) : x \in {v}} : TRUE
\* a loop over a sequence: Step(state, element) for each element in order,
\* by halves to keep the evaluation shallow
RECURSIVE FoldRange(_, _, _, _, _)
FoldRange(Step(_, _), seq, lo, hi, st) ==
    IF lo > hi THEN st
    ELSE IF lo = hi THEN Step(st, seq[lo])
    ELSE Strict(FoldRange(Step, seq, lo, (lo + hi) \div 2, st),
                LAMBDA mid : FoldRange(Step, seq, (lo + hi) \div 2 + 1, hi, mid))
FoldSeq(Step(_, _), seq, st) == FoldRange(Step, seq, 1, Len(seq), st)
\* the same loop over the positions lo..hi that stops where Done(state) holds
RECURSIVE FoldWhile(_, _, _, _, _)
FoldWhile(Step(_, _), Done(_), lo, hi, st) ==
    IF lo > hi \/ Done(st) THEN st
    ELSE IF lo = hi THEN Step(st, lo)
    ELSE Strict(FoldWhile(Step, Done, lo, (lo + hi) \div 2, st),
                LAMBDA mid : FoldWhile(Step, Done, (lo + hi) \div 2 + 1, hi, mid))

\* concatenation of the strings ss[lo..hi], by halves
RECURSIVE JoinRange(_, _, _)
JoinRange(ss, lo, hi) ==
    IF lo > hi THEN ""
    ELSE IF lo = hi THEN ss[lo]
    ELSE JoinRange(ss, lo, (lo + hi) \div 2) \o JoinRange(ss, (lo + hi) \div 2 + 1, hi)
Concat(ss) == JoinRange(ss, 1, Len(ss))
JoinStr(ss, sep) == Concat([i \in 1..Len(ss) |-> IF i = 1 THEN ss[i] ELSE sep \o ss[i]])

MapStr(s, F(_)) == Concat([i \in 1..Len(s) |-> F(Ch(s, i))])

\* the positions of s, ascending, that satisfy P
Positions(s, P(_)) == SelectSeq([i \in 1..Len(s) |-> i], P)

\* str::split(c): the segments between the occurrences of character c
SplitAt(s, hits) ==
    [k \in 1..(Len(hits) + 1) |->
        SubSeq(s, IF k = 1 THEN 1 ELSE hits[k - 1] + 1,
                  IF k > Len(hits) THEN Len(s) ELSE hits[k] - 1)]
Split(s, c) == SplitAt(s, Positions(s, LAMBDA i : Ch(s, i) = c))

\* str::replace(c, t) for a character pattern c
ReplaceChar(s, c, t) == MapStr(s, LAMBDA x : IF x = c THEN t ELSE x)

ToLowerCh(c) ==
    IF c \in Upper THEN Ch(LowerStr, CHOOSE i \in 1..Len(UpperStr) : Ch(UpperStr, i) = c)
    ELSE c
to_lowercase(s) == MapStr(s, ToLowerCh)

StartsWith(s, p) == Len(s) >= Len(p) /\ SubSeq(s, 1, Len(p)) = p
EndsWith(s, p) == Len(s) >= Len(p) /\ SubSeq(s, Len(s) - Len(p) + 1, Len(s)) = p
Contains(s, p) == \E i \in 1..(Len(s) - Len(p) + 1) : SubSeq(s, i, i + Len(p) - 1) = p

\* the sequences that list every element of S exactly once
OrderingsOf(S, n) == {f \in [1..n -> S] : \A i, j \in 1..n : f[i] = f[j] => i = j}
Orderings(S) == OrderingsOf(S, Cardinality(S))
Range(f) == {f[i] : i \in DOMAIN f}

\* concatenation of the sequences ss[lo..hi], by halves
RECURSIVE ConcatRange(_, _, _)
ConcatRange(ss, lo, hi) ==
    IF lo > hi THEN <<>>
    ELSE IF lo = hi THEN ss[lo]
    ELSE ConcatRange(ss, lo, (lo + hi) \div 2) \o ConcatRange(ss, (lo + hi) \div 2 + 1, hi)
ConcatAll(ss) == ConcatRange(ss, 1, Len(ss))

\* every concatenation of at most n pieces of P
RECURSIVE Concats(_, _)
Concats(P, n) ==
    IF n = 0 THEN {""}
    ELSE LET shorter == Concats(P, n - 1)
         IN shorter \cup {s \o p : s \in shorter, p \in P}

---------------------------------------------------------------------------
(* The regex crate, as far as the patterns of markdown.rs use it: a         *)
(* pattern is a tree, a match is searched leftmost-first (alternatives in   *)
(* order, greedy repetition longest first, lazy repetition shortest first), *)
(* ^ and $ are the start and the end of the whole text (no (?m) flag).      *)

RCh(S) == [op |-> "ch", neg |-> FALSE, set |-> S]
RNot(S) == [op |-> "ch", neg |-> TRUE, set |-> S]
RAny == RNot({})                       \* [\s\S]
RDot == RNot({"\n"})                   \* .
RLit(str) == [op |-> "lit", str |-> str]
RSeq(ps) == [op |-> "seq", parts |-> ps]
\* repetition of a character class: c* and c*?
RStar(c) == [op |-> "rep", cls |-> c, greedy |-> TRUE]
RLazyStar(c) == [op |-> "rep", cls |-> c, greedy |-> FALSE]
RPlus(c) == RSeq(<<c, RStar(c)>>)
RLazyPlus(c) == RSeq(<<c, RLazyStar(c)>>)
RAlt(ps) == [op |-> "alt", parts |-> ps]
ROpt(r) == RAlt(<<r, RSeq(<<>>)>>)
RGrp(n, r) == [op |-> "grp", n |-> n, r |-> r]
RBot == [op |-> "bot"]
REot == [op |-> "eot"]

\* the capture groups of a match: <<>> for a group that did not participate,
\* <<from, to>> (to exclusive) for one that did
MaxGroups == 3
NoCaps == [n \in 1..MaxGroups |-> <<>>]

ClassHas(cls, c) == (c \in cls.set) # cls.neg
\* the end of the run of cls characters that starts at i
RunEnd(s, i, cls) ==
    CHOOSE j \in i..(Len(s) + 1) :
        /\ j = Len(s) + 1 \/ ~ClassHas(cls, Ch(s, j))
        /\ \A k \in i..(j - 1) : ClassHas(cls, Ch(s, k))
RepEnds(i, e, caps, greedy) ==
    [k \in 1..(e - i + 1) |-> <<IF greedy THEN e - k + 1 ELSE i + k - 1, caps>>]
WithGroup(n, i, in) ==
    [k \in 1..Len(in) |-> <<in[k][1], [in[k][2] EXCEPT ![n] = <<i, in[k][1]>>]>>]

\* M(r, s, i, caps): the ways r matches s from position i, best first, each
\* <<position after the match, capture groups>>
RECURSIVE M(_, _, _, _)
RECURSIVE MSeq(_, _, _, _, _)
M(r, s, i, caps) ==
    CASE r.op = "ch" ->
            IF i <= Len(s) /\ ClassHas(r, Ch(s, i)) THEN << <<i + 1, caps>> >> ELSE <<>>
      [] r.op = "lit" ->
            IF i + Len(r.str) - 1 <= Len(s) /\ SubSeq(s, i, i + Len(r.str) - 1) = r.str
            THEN << <<i + Len(r.str), caps>> >> ELSE <<>>
      [] r.op = "seq" -> MSeq(r.parts, 1, s, i, caps)
      [] r.op = "alt" -> ConcatAll([k \in 1..Len(r.parts) |-> M(r.parts[k], s, i, caps)])
      [] r.op = "rep" -> Strict(RunEnd(s, i, r.cls), LAMBDA e : RepEnds(i, e, caps, r.greedy))
      [] r.op = "grp" -> Strict(M(r.r, s, i, caps), LAMBDA in : WithGroup(r.n, i, in))
      [] r.op = "bot" -> IF i = 1 THEN << <<i, caps>> >> ELSE <<>>
      [] r.op = "eot" -> IF i = Len(s) + 1 THEN << <<i, caps>> >> ELSE <<>>
MSeq(parts, k, s, i, caps) ==
    IF k > Len(parts) THEN << <<i, caps>> >>
    ELSE Strict(M(parts[k], s, i, caps), LAMBDA first :
            ConcatAll([n \in 1..Len(first) |-> MSeq(parts, k + 1, s, first[n][1], first[n][2])]))
MatchAt(re, s, i) == M(re, s, i, NoCaps)
\* Regex::is_match at one position, and the end of the best match there
Matches(re, s, i) == MatchAt(re, s, i) # <<>>
MatchEnd(re, s, i) == Head(MatchAt(re, s, i))[1]

\* Regex::captures_iter: the successive non-overlapping matches, leftmost
\* first (hits: the positions where a match starts, ascending)
ScanStep(re, s, st, h) ==
    IF h < st.from THEN st
    ELSE Strict(Head(MatchAt(re, s, h)), LAMBDA m :
            [from |-> IF m[1] = h THEN h + 1 ELSE m[1],
             out |-> st.out \o <<[start |-> h, end |-> m[1], caps |-> m[2]]>>])
ScanHits(re, s, hits) ==
    FoldSeq(LAMBDA st, h : ScanStep(re, s, st, h), hits, [from |-> 1, out |-> <<>>]).out
captures_iter(re, s) ==
    ScanHits(re, s, SelectSeq([i \in 1..(Len(s) + 1) |-> i], LAMBDA i : MatchAt(re, s, i) # <<>>))

\* caps.get(n): whether group n participated; &caps[n]: its text
HasCap(m, n) == m.caps[n] # <<>>
Cap(s, m, n) == SubSeq(s, m.caps[n][1], m.caps[n][2] - 1)

\* Regex::replace_all(s, closure): reps[k] replaces the k-th match
Splice(s, ms, reps) ==
    Concat([k \in 1..(2 * Len(ms) + 1) |->
        IF k % 2 = 0 THEN reps[k \div 2]
        ELSE SubSeq(s, IF k = 1 THEN 1 ELSE ms[k \div 2].end,
                       IF k = 2 * Len(ms) + 1 THEN Len(s) ELSE ms[k \div 2 + 1].start - 1)])
ReplaceMatches(s, ms, Rep(_, _)) == Splice(s, ms, [k \in 1..Len(ms) |-> Rep(s, ms[k])])
replace_all(re, s, Rep(_, _)) == ReplaceMatches(s, captures_iter(re, s), Rep)
\* the texts of group n over a list of matches
CapSet(s, ms, n) == {Cap(s, ms[k], n) : k \in 1..Len(ms)}

---------------------------------------------------------------------------
(* Helpers of markdown.rs.                                                 *)

\* fn escape_html: five replacements, the ampersand first
escape_html(input) ==
    ReplaceChar(ReplaceChar(ReplaceChar(ReplaceChar(ReplaceChar(input,
        "&", "&amp;"), "<", "&lt;"), ">", "&gt;"), "\"", "&quot;"), "'", "&#39;")

\* fn slugify: lowercase, every non-alphanumeric character to '-', split on
\* '-', drop the empty segments, join with '-'
\* (first a slugify that keeps the empty segments)
slugify_keep_empty(text) ==
    JoinStr(Split(MapStr(to_lowercase(text), LAMBDA c : IF c \in AlphaNum THEN c ELSE "-"), "-"), "-")
slugify(text) ==
    LET dashed == MapStr(to_lowercase(text), LAMBDA c : IF c \in AlphaNum THEN c ELSE "-")
    IN JoinStr(SelectSeq(Split(dashed, "-"), LAMBDA seg : seg # ""), "-")

\* fn is_image
is_image(resource) ==
    LET lower == to_lowercase(resource)
    IN \/ EndsWith(lower, ".png") \/ EndsWith(lower, ".jpg") \/ EndsWith(lower, ".jpeg")
       \/ EndsWith(lower, ".gif") \/ EndsWith(lower, ".webp") \/ EndsWith(lower, ".svg")
       \/ EndsWith(lower, ".avif")

---------------------------------------------------------------------------
(* fn preprocess_obsidian_syntax: four replace_all passes, each over the    *)
(* output of the one before.                                                *)

\* a pattern that takes an empty target too: \[\[([^\]|]*)(?:\|([^\]]+))?\]\]
wiki_link_re_empty_target ==
    RSeq(<<RLit("[["), RGrp(1, RStar(RNot({"]", "|"}))),
           ROpt(RSeq(<<RLit("|"), RGrp(2, RPlus(RNot({"]"})))>>)), RLit("]]")>>)
\* \[\[([^\]|]+)(?:\|([^\]]+))?\]\]
wiki_link_re ==
    RSeq(<<RLit("[["), RGrp(1, RPlus(RNot({"]", "|"}))),
           ROpt(RSeq(<<RLit("|"), RGrp(2, RPlus(RNot({"]"})))>>)), RLit("]]")>>)

\* the closure's bindings: link = &caps[1], display = caps.get(2) or link
wiki_link_link(s, m) == Cap(s, m, 1)
\* a closure that shows the target whatever the link says after the pipe
wiki_link_display_target(s, m) == Cap(s, m, 1)
wiki_link_display(s, m) == IF HasCap(m, 2) THEN Cap(s, m, 2) ELSE wiki_link_link(s, m)
wiki_link_fmt(slug, link, display) ==
    "<a href=\"/blogs/" \o slug \o "\" class=\"wiki-link\" data-page=\"" \o link
    \o "\"><span class=\"link-icon\"></span> " \o display \o "</a>"
wiki_link_repl(s, m) ==
    wiki_link_fmt(slugify(wiki_link_link(s, m)), wiki_link_link(s, m), wiki_link_display(s, m))
wiki_link_rule(s) == replace_all(wiki_link_re, s, wiki_link_repl)

\* (?:^|\s)#([a-zA-Z][a-zA-Z0-9_-]*)
tag_re ==
    RSeq(<<RAlt(<<RBot, RCh(Space)>>), RLit("#"),
           RGrp(1, RSeq(<<RCh(Letter), RStar(RCh(AlphaNum \cup {"_", "-"}))>>))>>)
tag_fmt(tag) ==
    " <span class=\"obsidian-tag\" data-tag=\"" \o tag
    \o "\"><span class=\"tag-icon\"></span>" \o tag \o "</span>"
tag_repl(s, m) == tag_fmt(Cap(s, m, 1))
tag_rule(s) == replace_all(tag_re, s, tag_repl)

\* \^([a-zA-Z0-9-]+)$
block_id_re == RSeq(<<RLit("^"), RGrp(1, RPlus(RCh(AlphaNum \cup {"-"}))), REot>>)
block_id_fmt(block_id) ==
    "<span class=\"block-ref\" id=\"block-" \o block_id \o "\" data-block-id=\""
    \o block_id \o "\"></span>"
block_id_repl(s, m) == block_id_fmt(Cap(s, m, 1))
block_id_rule(s) == replace_all(block_id_re, s, block_id_repl)

\* !\[\[([^\]]+)\]\]
embed_re == RSeq(<<RLit("![["), RGrp(1, RPlus(RNot({"]"}))), RLit("]]")>>)
embed_fmt(resource) ==
    IF is_image(resource)
    THEN "<img src=\"/api/assets/" \o slugify(resource) \o "\" alt=\"" \o resource
         \o "\" class=\"obsidian-embed-image\" loading=\"lazy\" />"
    ELSE "<div class=\"obsidian-embed\" data-page=\"" \o resource
         \o "\"><span class=\"embed-icon\"></span> " \o resource \o "</div>"
embed_repl(s, m) == embed_fmt(Cap(s, m, 1))
embed_rule(s) == replace_all(embed_re, s, embed_repl)

preprocess_obsidian_syntax(s) == embed_rule(block_id_rule(tag_rule(wiki_link_rule(s))))

---------------------------------------------------------------------------
(* Parser::new_ext(&processed, options): the events pulldown-cmark yields,  *)
(* for the part of Markdown the documents of this model are written in:     *)
(* fenced code blocks, HTML blocks (start conditions 1, 6 and 7 of          *)
(* CommonMark), paragraphs, and inside paragraphs code spans, raw inline    *)
(* HTML tags, soft breaks and text with smart punctuation of quotes. Not    *)
(* covered: lines indented by four or more spaces, headings, lists, block   *)
(* quotes, emphasis, links, entities, comments and autolinks.               *)

EvStart(tag, s) == [k |-> "Start", tag |-> tag, s |-> s]
EvEnd(tag) == [k |-> "End", tag |-> tag, s |-> ""]
EvText(s) == [k |-> "Text", tag |-> "", s |-> s]
EvCode(s) == [k |-> "Code", tag |-> "", s |-> s]
EvHtml(s) == [k |-> "Html", tag |-> "", s |-> s]
EvInlineHtml(s) == [k |-> "InlineHtml", tag |-> "", s |-> s]
EvSoftBreak == [k |-> "SoftBreak", tag |-> "", s |-> ""]

\* A string of this notation cannot hold a grave accent or a character
\* outside Latin-1. The grave accent of a document is written ~, and the
\* quotation marks U+201C, U+201D and U+2019 that smart punctuation writes
\* are written as the three characters below; no document of the model
\* holds any of the four stand-ins as itself.
Backtick == "~"
LeftDoubleQuote == "{"
RightDoubleQuote == "}"
RightSingleQuote == "%"

Blank == {" ", "\t"}
IsBlank(line) == \A i \in 1..Len(line) : Ch(line, i) \in Blank
TrimStart(s) == SubSeq(s, RunEnd(s, 1, RCh(Space)), Len(s))
TrimEnd(s) ==
    IF \A i \in 1..Len(s) : Ch(s, i) \in Space THEN ""
    ELSE SubSeq(s, 1, CHOOSE j \in 1..Len(s) :
                        Ch(s, j) \notin Space /\ \A k \in (j + 1)..Len(s) : Ch(s, k) \in Space)
Trim(s) == TrimEnd(TrimStart(s))

\* the lines of a text, without their line endings; a text that ends with a
\* line ending has no empty last line
LinesOf(s) ==
    IF s = "" THEN <<>>
    ELSE IF Ch(s, Len(s)) = "\n" THEN Split(SubSeq(s, 1, Len(s) - 1), "\n")
    ELSE Split(s, "\n")
\* line k as it stands in the text, line ending included
LineText(s, lines, k) ==
    lines[k] \o (IF k < Len(lines) \/ Ch(s, Len(s)) = "\n" THEN "\n" ELSE "")

\* an opening code fence: three or more backticks, then an info string
\* without backticks
fence_open_re ==
    RSeq(<<RBot, RStar(RCh({" "})), RGrp(1, RSeq(<<RLit(Backtick \o Backtick \o Backtick), RStar(RCh({Backtick}))>>)),
           RGrp(2, RStar(RNot({Backtick}))), REot>>)
fence_close_re ==
    RSeq(<<RBot, RStar(RCh({" "})), RGrp(1, RSeq(<<RLit(Backtick \o Backtick \o Backtick), RStar(RCh({Backtick}))>>)),
           RStar(RCh(Blank)), REot>>)
FenceLen(line, re) ==
    IF Matches(re, line, 1)
    THEN Strict(Head(MatchAt(re, line, 1)), LAMBDA m : m[2][1][2] - m[2][1][1])
    ELSE 0
FenceInfo(line) ==
    Strict(Head(MatchAt(fence_open_re, line, 1)), LAMBDA m : Trim(SubSeq(line, m[2][2][1], m[2][2][2] - 1)))

\* raw HTML tags as CommonMark defines them, read one character at a time
\* from the character after the <. q: what the scanner has just read; "ok"
\* after the closing >, "no" where no tag can follow
cm_value_start(c) == c \notin Space \cup {"\"", "'", "=", "<", ">", Backtick}
cm_after_item(c, q) ==
    CASE c \in Space -> "ws" [] c = "/" -> "slash" [] c = ">" -> "ok" [] OTHER -> q
cm_tag_next(q, c) ==
    CASE q = "lt" -> IF c = "/" THEN "close" ELSE IF c \in Letter THEN "name" ELSE "no"
      [] q = "name" -> IF c \in AlphaNum \cup {"-"} THEN "name" ELSE cm_after_item(c, "no")
      [] q = "ws" -> IF c \in Letter \cup {"_", ":"} THEN "attr" ELSE cm_after_item(c, "no")
      [] q = "attr" ->
            IF c \in AlphaNum \cup {"_", ".", ":", "-"} THEN "attr"
            ELSE IF c = "=" THEN "eq"
            ELSE IF c \in Space THEN "attr_ws" ELSE cm_after_item(c, "no")
      [] q = "attr_ws" ->
            IF c = "=" THEN "eq"
            ELSE IF c \in Space THEN "attr_ws"
            ELSE IF c \in Letter \cup {"_", ":"} THEN "attr" ELSE cm_after_item(c, "no")
      [] q = "eq" ->
            IF c \in Space THEN "eq"
            ELSE IF c = "\"" THEN "dq"
            ELSE IF c = "'" THEN "sq"
            ELSE IF cm_value_start(c) THEN "unq" ELSE "no"
      [] q = "dq" -> IF c = "\"" THEN "quoted" ELSE "dq"
      [] q = "sq" -> IF c = "'" THEN "quoted" ELSE "sq"
      [] q = "unq" ->
            IF c \in Space THEN "ws"
            ELSE IF c = ">" THEN "ok"
            ELSE IF cm_value_start(c) THEN "unq" ELSE "no"
      [] q = "quoted" -> cm_after_item(c, "no")
      [] q = "slash" -> IF c = ">" THEN "ok" ELSE "no"
      [] q = "close" -> IF c \in Letter THEN "close_name" ELSE "no"
      [] q = "close_name" ->
            IF c \in AlphaNum \cup {"-"} THEN "close_name"
            ELSE IF c \in Space THEN "close_ws"
            ELSE IF c = ">" THEN "ok" ELSE "no"
      [] q = "close_ws" -> IF c \in Space THEN "close_ws" ELSE IF c = ">" THEN "ok" ELSE "no"
      [] OTHER -> q
cm_tag_scan(s, i) ==
    FoldWhile(LAMBDA st, j : [q |-> cm_tag_next(st.q, Ch(s, j)), end |-> j + 1],
              LAMBDA st : st.q \in {"ok", "no"}, i + 1, Len(s), [q |-> "lt", end |-> i + 1])
\* the position after the tag that starts at position i, or 0
cm_html_tag_end(s, i) ==
    IF i > Len(s) \/ Ch(s, i) # "<" THEN 0
    ELSE Strict(cm_tag_scan(s, i), LAMBDA st : IF st.q = "ok" THEN st.end ELSE 0)
cm_tag_name == RSeq(<<RCh(Letter), RStar(RCh(AlphaNum \cup {"-"}))>>)

\* HTML block start conditions 1, 6 and 7
HtmlRawNames == {"script", "pre", "style", "textarea"}
HtmlBlockNames ==
    {"address", "article", "aside", "base", "basefont", "blockquote", "body", "caption",
     "center", "col", "colgroup", "dd", "details", "dialog", "dir", "div", "dl", "dt",
     "fieldset", "figcaption", "figure", "footer", "form", "frame", "frameset", "h1", "h2",
     "h3", "h4", "h5", "h6", "head", "header", "hr", "html", "iframe", "legend", "li",
     "link", "main", "menu", "menuitem", "nav", "noframes", "ol", "optgroup", "option",
     "p", "param", "section", "summary", "table", "tbody", "td", "tfoot", "th", "thead",
     "title", "tr", "track", "ul"}
html_block_lead_re ==
    RSeq(<<RBot, RStar(RCh({" "})), RLit("<"), ROpt(RLit("/")), RGrp(1, cm_tag_name),
           RAlt(<<RCh(Blank \cup {">"}), RLit("/>"), REot>>)>>)
LeadName(line) ==
    IF Matches(html_block_lead_re, line, 1)
    THEN Strict(Head(MatchAt(html_block_lead_re, line, 1)),
                LAMBDA m : to_lowercase(SubSeq(line, m[2][1][1], m[2][1][2] - 1)))
    ELSE ""
LeadIsClosing(line) == Ch(TrimStart(line), 2) = "/"
HtmlStart1(line) == LeadName(line) \in HtmlRawNames /\ ~LeadIsClosing(line)
HtmlEnd1(line) == \E n \in HtmlRawNames : Contains(to_lowercase(line), "</" \o n \o ">")
HtmlStart6(line) == LeadName(line) \in HtmlBlockNames
html_block_7_name_re ==
    RSeq(<<RBot, RStar(RCh({" "})), RLit("<"), ROpt(RLit("/")), RGrp(1, cm_tag_name)>>)
TagName7(line) ==
    Strict(MatchAt(html_block_7_name_re, line, 1), LAMBDA l :
        IF l = <<>> THEN "" ELSE to_lowercase(SubSeq(line, l[1][2][1][1], l[1][2][1][2] - 1)))
HtmlStart7(line) ==
    Strict(cm_html_tag_end(line, RunEnd(line, 1, RCh({" "}))), LAMBDA e :
        /\ e > 0
        /\ IsBlank(SubSeq(line, e, Len(line)))
        /\ TagName7(line) \notin HtmlRawNames)

\* inline content of a paragraph
InlineSpecial == {Backtick, "<", "\n", "\"", "'"}
NextSpecial(s, i) ==
    CHOOSE j \in i..(Len(s) + 1) :
        /\ j = Len(s) + 1 \/ Ch(s, j) \in InlineSpecial
        /\ \A k \in i..(j - 1) : Ch(s, k) \notin InlineSpecial
BacktickRun(s, i) == RunEnd(s, i, RCh({Backtick})) - i
\* the start of the backtick string of length n that closes a code span
\* opened before position from, or 0
CodeSpanClose(s, from, n) ==
    Strict(SelectSeq([j \in 1..Len(s) |-> j], LAMBDA j :
                /\ j >= from /\ Ch(s, j) = Backtick /\ Ch(s, j - 1) # Backtick
                /\ BacktickRun(s, j) = n),
           LAMBDA c : IF c = <<>> THEN 0 ELSE c[1])
CodeSpanText(raw) ==
    Strict(ReplaceChar(raw, "\n", " "), LAMBDA c :
        IF Len(c) >= 2 /\ Ch(c, 1) = " " /\ Ch(c, Len(c)) = " " /\ ~IsBlank(c)
        THEN SubSeq(c, 2, Len(c) - 1) ELSE c)
\* smart punctuation: a double quote closes after a non-space, else opens; a
\* single quote is written as an apostrophe
SmartQuote(s, i) ==
    IF Ch(s, i) = "'" THEN RightSingleQuote
    ELSE IF i > 1 /\ Ch(s, i - 1) \notin Space THEN RightDoubleQuote ELSE LeftDoubleQuote

\* the events of the inline item that starts at position i, and where the
\* next one starts
InlineItem(evs, next) == [evs |-> evs, next |-> next]
InlineCode(s, i, n, close) ==
    IF close = 0 THEN InlineItem(<<EvText(SubSeq(s, i, i + n - 1))>>, i + n)
    ELSE InlineItem(<<EvCode(CodeSpanText(SubSeq(s, i + n, close - 1)))>>, close + n)
InlineAt(s, i) ==
    IF Ch(s, i) \notin InlineSpecial
    THEN Strict(NextSpecial(s, i), LAMBDA j : InlineItem(<<EvText(SubSeq(s, i, j - 1))>>, j))
    ELSE CASE Ch(s, i) = Backtick ->
                Strict(BacktickRun(s, i), LAMBDA n : InlineCode(s, i, n, CodeSpanClose(s, i + n, n)))
           [] Ch(s, i) = "<" ->
                Strict(cm_html_tag_end(s, i), LAMBDA e :
                    IF e > 0 THEN InlineItem(<<EvInlineHtml(SubSeq(s, i, e - 1))>>, e)
                    ELSE InlineItem(<<EvText("<")>>, i + 1))
           [] Ch(s, i) = "\n" -> InlineItem(<<EvSoftBreak>>, i + 1)
           [] OTHER -> InlineItem(<<EvText(SmartQuote(s, i))>>, i + 1)
InlineStep(s, st, i) ==
    IF i < st.next THEN st
    ELSE Strict(InlineAt(s, i), LAMBDA it : [evs |-> st.evs \o it.evs, next |-> it.next])
Inline(s) ==
    FoldSeq(LAMBDA st, i : InlineStep(s, st, i), [i \in 1..Len(s) |-> i], InlineItem(<<>>, 1)).evs
ParagraphEvents(para) ==
    <<EvStart("Paragraph", "")>>
    \o Inline(JoinStr([k \in 1..Len(para) |-> Trim(para[k])], "\n"))
    \o <<EvEnd("Paragraph")>>

\* the block structure, line by line. st.mode: what the line before left
\* open; st.fence: the length of the open fence; st.para: the lines of the
\* open paragraph; st.out: the events so far
BlockInit == [mode |-> "none", fence |-> 0, para |-> <<>>, out |-> <<>>]
ClosePara(st) ==
    IF st.para = <<>> THEN st.out ELSE st.out \o ParagraphEvents(st.para)
BlockStep(st, line, text) ==
    CASE st.mode = "fence" ->
            IF FenceLen(line, fence_close_re) >= st.fence
            THEN [st EXCEPT !.mode = "none", !.out = @ \o <<EvEnd("CodeBlock")>>]
            ELSE [st EXCEPT !.out = @ \o <<EvText(text)>>]
      [] st.mode = "html1" ->
            IF HtmlEnd1(line)
            THEN [st EXCEPT !.mode = "none", !.out = @ \o <<EvHtml(text), EvEnd("HtmlBlock")>>]
            ELSE [st EXCEPT !.out = @ \o <<EvHtml(text)>>]
      [] st.mode = "html6" ->
            IF IsBlank(line)
            THEN [st EXCEPT !.mode = "none", !.out = @ \o <<EvEnd("HtmlBlock")>>]
            ELSE [st EXCEPT !.out = @ \o <<EvHtml(text)>>]
      [] OTHER ->
            IF IsBlank(line)
            THEN [st EXCEPT !.mode = "none", !.para = <<>>, !.out = ClosePara(st)]
            ELSE IF FenceLen(line, fence_open_re) > 0
            THEN [mode |-> "fence", fence |-> FenceLen(line, fence_open_re), para |-> <<>>,
                  out |-> ClosePara(st) \o <<EvStart("CodeBlockFenced", FenceInfo(line))>>]
            ELSE IF HtmlStart1(line)
            THEN [mode |-> IF HtmlEnd1(line) THEN "none" ELSE "html1", fence |-> 0, para |-> <<>>,
                  out |-> ClosePara(st) \o <<EvStart("HtmlBlock", ""), EvHtml(text)>>
                          \o (IF HtmlEnd1(line) THEN <<EvEnd("HtmlBlock")>> ELSE <<>>)]
            ELSE IF HtmlStart6(line) \/ (st.mode = "none" /\ HtmlStart7(line))
            THEN [mode |-> "html6", fence |-> 0, para |-> <<>>,
                  out |-> ClosePara(st) \o <<EvStart("HtmlBlock", ""), EvHtml(text)>>]
            ELSE [st EXCEPT !.mode = "para", !.para = @ \o <<line>>]
BlockEnd(st) ==
    CASE st.mode = "fence" -> st.out \o <<EvEnd("CodeBlock")>>
      [] st.mode \in {"html1", "html6"} -> st.out \o <<EvEnd("HtmlBlock")>>
      [] OTHER -> ClosePara(st)

BlocksOf(s, lines) ==
    BlockEnd(FoldSeq(LAMBDA st, k : BlockStep(st, lines[k], LineText(s, lines, k)),
                     [k \in 1..Len(lines) |-> k], BlockInit))
Parser_new_ext(s) == BlocksOf(s, LinesOf(s))

---------------------------------------------------------------------------
(* fn render_obsidian_markdown, the body of `for event in parser`: what one *)
(* event pushes onto events and what it leaves in_code_block and code_lang. *)

code_block_fmt(lang, shown, class_lang) ==
    "<div class=\"code-block\" data-lang=\"" \o lang \o "\">\n"
    \o "                            <div class=\"code-header\">\n"
    \o "                                <span class=\"code-lang\">" \o shown \o "</span>\n"
    \o "                                <button class=\"code-copy\" onclick=\"copyCode(this)\" aria-label=\"Copy code\">\n"
    \o "                                    <span class=\"copy-icon\"></span>\n"
    \o "                                </button>\n"
    \o "                            </div>\n"
    \o "                            <pre><code class=\"language-" \o class_lang \o "\">"
code_block_open(lang) == code_block_fmt(lang, IF lang = "" THEN "text" ELSE lang, lang)
code_block_close == "</code></pre></div>"
inline_code_fmt(code) == "<code class=\"inline-code\">" \o escape_html(code) \o "</code>"

IsCodeBlockStart(ev) == ev.k = "Start" /\ ev.tag \in {"CodeBlockFenced", "CodeBlockIndented"}
\* `if let CodeBlockKind::Fenced(lang) = kind { code_lang = lang.to_string(); }`
code_lang_at_start(ev, lang) == IF ev.tag = "CodeBlockFenced" THEN ev.s ELSE lang
\* a loop that pushes the text of a code block as it is
code_text_event_raw(text) == EvHtml(text)
\* `Event::Text(text) if in_code_block`: Event::Html(escape_html(&text).into())
code_text_event(text) == EvHtml(escape_html(text))
\* a loop that keeps the language when a block ends
code_lang_at_end_kept(lang) == lang
\* `code_lang.clear();`
code_lang_at_end(lang) == ""
transform_event(ev, in_code, lang) ==
    CASE IsCodeBlockStart(ev) ->
            [ev |-> EvHtml(code_block_open(code_lang_at_start(ev, lang))),
             in_code_block |-> TRUE, code_lang |-> code_lang_at_start(ev, lang)]
      [] ev.k = "End" /\ ev.tag = "CodeBlock" ->
            [ev |-> EvHtml(code_block_close), in_code_block |-> FALSE,
             code_lang |-> code_lang_at_end(lang)]
      [] ev.k = "Text" /\ in_code ->
            [ev |-> code_text_event(ev.s), in_code_block |-> in_code, code_lang |-> lang]
      [] ev.k = "Code" ->
            [ev |-> EvHtml(inline_code_fmt(ev.s)), in_code_block |-> in_code, code_lang |-> lang]
      [] OTHER -> [ev |-> ev, in_code_block |-> in_code, code_lang |-> lang]

(* html::push_html(&mut html_output, events.into_iter()): pulldown-cmark's  *)
(* HTML writer over the events the loop pushed.                             *)
escape_html_body_text(s) ==
    ReplaceChar(ReplaceChar(ReplaceChar(s, "&", "&amp;"), "<", "&lt;"), ">", "&gt;")
EndsNewline(out) == out = "" \/ Ch(out, Len(out)) = "\n"
write_event(out, ev) ==
    out \o (CASE ev.k = "Start" /\ ev.tag = "Paragraph" -> IF EndsNewline(out) THEN "<p>" ELSE "\n<p>"
              [] ev.k = "End" /\ ev.tag = "Paragraph" -> "</p>\n"
              [] ev.k = "Text" -> escape_html_body_text(ev.s)
              [] ev.k = "Code" -> "<code>" \o escape_html_body_text(ev.s) \o "</code>"
              [] ev.k \in {"Html", "InlineHtml"} -> ev.s
              [] ev.k = "SoftBreak" -> "\n"
              [] OTHER -> "")
push_html(out, evs) == FoldSeq(write_event, evs, out)

\* the loop run to its end, for use outside the step-by-step specification
transform_step(st, ev) ==
    Strict(transform_event(ev, st.in_code_block, st.code_lang), LAMBDA r :
        [events |-> st.events \o <<r.ev>>, in_code_block |-> r.in_code_block,
         code_lang |-> r.code_lang])
transform_events(evs) ==
    FoldSeq(transform_step, evs, [events |-> <<>>, in_code_block |-> FALSE, code_lang |-> ""]).events

---------------------------------------------------------------------------
(* impl CalloutType, fn from_str; fn postprocess_callouts,                  *)
(* fn postprocess_highlights, fn postprocess_mermaid_diagrams.              *)

CalloutOf(name, color) == [name |-> name, icon |-> "", color |-> color]
\* a scrutinee that compares the label as it was written
from_str_scrutinee_exact(s) == s
\* match s.to_lowercase().as_str()
from_str_scrutinee(s) == to_lowercase(s)
CalloutType_from_str(s) ==
    LET l == from_str_scrutinee(s) IN
    CASE l \in {"note", "info"} -> CalloutOf("note", "blue")
      [] l \in {"tip", "hint", "important"} -> CalloutOf("tip", "teal")
      [] l \in {"warning", "caution", "attention"} -> CalloutOf("warning", "yellow")
      [] l \in {"danger", "error"} -> CalloutOf("danger", "red")
      [] l \in {"success", "check", "done"} -> CalloutOf("success", "green")
      [] l \in {"question", "help", "faq"} -> CalloutOf("question", "mauve")
      [] l = "example" -> CalloutOf("example", "lavender")
      [] l \in {"quote", "cite"} -> CalloutOf("quote", "flamingo")
      [] l = "bug" -> CalloutOf("bug", "maroon")
      [] l \in {"abstract", "summary", "tldr"} -> CalloutOf("abstract", "sky")
      [] l \in {"code", "snippet"} -> CalloutOf("code", "peach")
      [] l \in {"todo", "task"} -> CalloutOf("todo", "sapphire")
      [] OTHER -> CalloutOf("note", "surface2")

\* <blockquote>\s*<p>\[!([^\]]+)\](?:\s+(.+?))?</p>([\s\S]*?)</blockquote>
callout_re ==
    RSeq(<<RLit("<blockquote>"), RStar(RCh(Space)), RLit("<p>[!"),
           RGrp(1, RPlus(RNot({"]"}))), RLit("]"),
           ROpt(RSeq(<<RPlus(RCh(Space)), RGrp(2, RLazyPlus(RDot))>>)),
           RLit("</p>"), RGrp(3, RLazyStar(RAny)), RLit("</blockquote>")>>)
callout_fmt(color, name, icon, title, body) ==
    "<div class=\"callout callout-" \o color \o "\" data-callout-type=\"" \o name \o "\">\n"
    \o "                <div class=\"callout-header\">\n"
    \o "                    <span class=\"callout-icon\">" \o icon \o "</span>\n"
    \o "                    <span class=\"callout-title\">" \o title \o "</span>\n"
    \o "                    <button class=\"callout-fold\" onclick=\"toggleCallout(this)\" aria-label=\"Toggle callout\">\n"
    \o "                        <span class=\"fold-icon\"></span>\n"
    \o "                    </button>\n"
    \o "                </div>\n"
    \o "                <div class=\"callout-content\">" \o body \o "</div>\n"
    \o "            </div>"
callout_title(s, m) == IF HasCap(m, 2) THEN Cap(s, m, 2) ELSE Cap(s, m, 1)
callout_repl(s, m) ==
    LET callout_type == CalloutType_from_str(Cap(s, m, 1)) IN
    callout_fmt(callout_type.color, callout_type.name, callout_type.icon,
                callout_title(s, m), Cap(s, m, 3))
postprocess_callouts(html) == replace_all(callout_re, html, callout_repl)

\* ==(.*?)==
highlight_re == RSeq(<<RLit("=="), RGrp(1, RLazyStar(RDot)), RLit("==")>>)
highlight_repl(s, m) == "<mark class=\"obsidian-highlight\">" \o Cap(s, m, 1) \o "</mark>"
postprocess_highlights(html) == replace_all(highlight_re, html, highlight_repl)

\* <pre><code class="language-mermaid">([\s\S]*?)</code></pre>
mermaid_re ==
    RSeq(<<RLit("<pre><code class=\"language-mermaid\">"), RGrp(1, RLazyStar(RAny)),
           RLit("</code></pre>")>>)
mermaid_fmt(escaped, diagram) ==
    "<div class=\"mermaid-diagram\" data-diagram=\"" \o escaped \o "\">\n"
    \o "                    <div class=\"mermaid-loading\"><span class=\"loading-icon\"></span> Rendering diagram...</div>\n"
    \o "                    <div class=\"mermaid-content\" style=\"display:none;\">" \o diagram \o "</div>\n"
    \o "                </div>"
mermaid_repl(s, m) == mermaid_fmt(escape_html(Cap(s, m, 1)), Cap(s, m, 1))
postprocess_mermaid_diagrams(html) == replace_all(mermaid_re, html, mermaid_repl)

---------------------------------------------------------------------------
(* fn sanitize_html: builder.clean(html).to_string(). ammonia parses html   *)
(* as a fragment with html5ever, walks the tree with the Builder's policy   *)
(* and serializes what is left. First the tokens of the fragment. Covered:  *)
(* start and end tags with attributes, text, the five character references  *)
(* the escaping functions above can write, script and style content, a tag  *)
(* cut off by the end of the text, and "<!", "<?" and "</" before a         *)
(* character that starts no tag name, read as a comment up to the next ">"  *)
(* and dropped. Not covered: "-->" as the end of a comment, other character *)
(* references, textarea, title and plaintext content.                       *)

entity_re == RAlt(<<RLit("&amp;"), RLit("&lt;"), RLit("&gt;"), RLit("&quot;"), RLit("&#39;")>>)
entity_char(e) ==
    CASE e = "&amp;" -> "&" [] e = "&lt;" -> "<" [] e = "&gt;" -> ">"
      [] e = "&quot;" -> "\"" [] OTHER -> "'"
entity_repl(s, m) == entity_char(SubSeq(s, m.start, m.end - 1))
decode_entities(s) == replace_all(entity_re, s, entity_repl)

TokText(s) == [t |-> "text", name |-> "", attrs |-> <<>>, s |-> s]
TokOpen(name, attrs) == [t |-> "open", name |-> name, attrs |-> attrs, s |-> ""]
TokClose(name) == [t |-> "close", name |-> name, attrs |-> <<>>, s |-> ""]

text_tokens(s) == IF s = "" THEN <<>> ELSE <<TokText(decode_entities(s))>>

\* The tokenizer reads one character at a time. z.q: its state; z.toks: the
\* tokens so far; z.text: the text not yet made a token; z.closing, z.name,
\* z.attrs: the tag being read; z.an, z.av: the attribute being read;
\* z.raw: the script or style element whose content is being read
TzInit ==
    [q |-> "data", toks |-> <<>>, text |-> "", closing |-> FALSE, name |-> "", attrs |-> <<>>,
     an |-> "", av |-> "", raw |-> ""]
\* a later attribute of a name the tag already has is dropped
PushAttr(z) ==
    IF z.an = "" THEN z
    ELSE [z EXCEPT !.attrs = IF \E k \in 1..Len(@) : @[k].n = z.an THEN @
                             ELSE @ \o <<[n |-> z.an, v |-> decode_entities(z.av)]>>,
                   !.an = "", !.av = ""]
TagToken(z) == IF z.closing THEN TokClose(z.name) ELSE TokOpen(z.name, z.attrs)
EmitPushed(z) ==
    [z EXCEPT !.toks = @ \o text_tokens(z.text) \o <<TagToken(z)>>, !.text = "",
              !.q = IF ~z.closing /\ z.name \in {"script", "style"} THEN "rawtext" ELSE "data",
              !.raw = IF ~z.closing /\ z.name \in {"script", "style"} THEN z.name ELSE ""]
EmitTag(z) == EmitPushed(PushAttr(z))
NewTag(z, closing, c) ==
    [z EXCEPT !.q = "tag_name", !.closing = closing, !.name = ToLowerCh(c), !.attrs = <<>>,
              !.an = "", !.av = ""]
NewAttr(z, c) == [PushAttr(z) EXCEPT !.q = "attr_name", !.an = ToLowerCh(c)]
Data(z, c) == IF c = "<" THEN [z EXCEPT !.q = "tag_open"] ELSE [z EXCEPT !.q = "data", !.text = @ \o c]
TagOpen(z, c) ==
    CASE c \in Letter -> NewTag(z, FALSE, c)
      [] c = "/" -> [z EXCEPT !.q = "end_tag_open"]
      [] c \in {"!", "?"} -> [z EXCEPT !.q = "bogus_comment"]
      [] OTHER -> Data([z EXCEPT !.text = @ \o "<"], c)
EndTagOpen(z, c) ==
    CASE c \in Letter -> NewTag(z, TRUE, c)
      [] c = ">" -> [z EXCEPT !.q = "data"]
      [] OTHER -> [z EXCEPT !.q = "bogus_comment"]
TagName(z, c) ==
    CASE c \in Space -> [z EXCEPT !.q = "before_attr_name"]
      [] c = "/" -> [z EXCEPT !.q = "self_closing"]
      [] c = ">" -> EmitTag(z)
      [] OTHER -> [z EXCEPT !.name = @ \o ToLowerCh(c)]
AfterAttrName(z, c) ==
    CASE c \in Space -> [z EXCEPT !.q = "after_attr_name"]
      [] c = "/" -> [z EXCEPT !.q = "self_closing"]
      [] c = "=" -> [z EXCEPT !.q = "before_attr_value"]
      [] c = ">" -> EmitTag(z)
      [] OTHER -> NewAttr(z, c)
AttrName(z, c) ==
    CASE c \in Space \cup {"/", ">"} -> AfterAttrName(z, c)
      [] c = "=" -> [z EXCEPT !.q = "before_attr_value"]
      [] OTHER -> [z EXCEPT !.an = @ \o ToLowerCh(c)]
BeforeAttrName(z, c) ==
    CASE c \in Space -> [z EXCEPT !.q = "before_attr_name"]
      [] c \in {"/", ">"} -> AfterAttrName(PushAttr(z), c)
      [] OTHER -> NewAttr(z, c)
BeforeAttrValue(z, c) ==
    CASE c \in Space -> z
      [] c = "\"" -> [z EXCEPT !.q = "value_dq"]
      [] c = "'" -> [z EXCEPT !.q = "value_sq"]
      [] c = ">" -> EmitTag(z)
      [] OTHER -> [z EXCEPT !.q = "value_unq", !.av = c]
ValueQuoted(z, c, quote) ==
    IF c = quote THEN [z EXCEPT !.q = "after_value_quoted"] ELSE [z EXCEPT !.av = @ \o c]
ValueUnquoted(z, c) ==
    CASE c \in Space -> [z EXCEPT !.q = "before_attr_name"]
      [] c = ">" -> EmitTag(z)
      [] OTHER -> [z EXCEPT !.av = @ \o c]
AfterValueQuoted(z, c) ==
    CASE c \in Space -> [z EXCEPT !.q = "before_attr_name"]
      [] c = "/" -> [z EXCEPT !.q = "self_closing"]
      [] c = ">" -> EmitTag(z)
      [] OTHER -> BeforeAttrName(z, c)
SelfClosing(z, c) == IF c = ">" THEN EmitTag(z) ELSE BeforeAttrName(z, c)
BogusComment(z, c) == IF c = ">" THEN [z EXCEPT !.q = "data"] ELSE z
\* the content of a script or style element ends at its own end tag only
EndsRaw(z, s, i) ==
    /\ i + Len(z.raw) + 2 <= Len(s)
    /\ to_lowercase(SubSeq(s, i, i + Len(z.raw) + 1)) = "</" \o z.raw
    /\ Ch(s, i + Len(z.raw) + 2) \in Space \cup {"/", ">"}
RawText(z, s, i) ==
    IF EndsRaw(z, s, i) THEN [z EXCEPT !.q = "tag_open"] ELSE [z EXCEPT !.text = @ \o Ch(s, i)]
TzStep(z, s, i) ==
    CASE z.q = "data" -> Data(z, Ch(s, i))
      [] z.q = "tag_open" -> TagOpen(z, Ch(s, i))
      [] z.q = "end_tag_open" -> EndTagOpen(z, Ch(s, i))
      [] z.q = "tag_name" -> TagName(z, Ch(s, i))
      [] z.q = "before_attr_name" -> BeforeAttrName(z, Ch(s, i))
      [] z.q = "attr_name" -> AttrName(z, Ch(s, i))
      [] z.q = "after_attr_name" -> AfterAttrName(z, Ch(s, i))
      [] z.q = "before_attr_value" -> BeforeAttrValue(z, Ch(s, i))
      [] z.q = "value_dq" -> ValueQuoted(z, Ch(s, i), "\"")
      [] z.q = "value_sq" -> ValueQuoted(z, Ch(s, i), "'")
      [] z.q = "value_unq" -> ValueUnquoted(z, Ch(s, i))
      [] z.q = "after_value_quoted" -> AfterValueQuoted(z, Ch(s, i))
      [] z.q = "self_closing" -> SelfClosing(z, Ch(s, i))
      [] z.q = "bogus_comment" -> BogusComment(z, Ch(s, i))
      [] OTHER -> RawText(z, s, i)
\* at the end of the text a tag that is not complete is dropped
TzEnd(z) ==
    z.toks \o text_tokens(z.text \o (CASE z.q = "tag_open" -> "<"
                                       [] z.q = "end_tag_open" -> "</"
                                       [] OTHER -> ""))
tokenize(s) ==
    TzEnd(FoldSeq(LAMBDA z, i : TzStep(z, s, i), [i \in 1..Len(s) |-> i], TzInit))

(* The tree html5ever builds from the tokens, written as a balanced list of *)
(* open, text and close tokens. Covered: void elements, an open p closed by *)
(* the start of a block, a second button closing the first, end tags with   *)
(* no element to close, </p> with no p to close, elements left open at the  *)
(* end. Not covered: the adoption agency algorithm for misnested formatting *)
(* elements, list items, headings inside headings, tables, foreign content. *)

VoidElements ==
    {"area", "base", "br", "col", "embed", "hr", "img", "input", "link", "meta", "param",
     "source", "track", "wbr"}
ScopeMarkers == {"applet", "caption", "html", "table", "td", "th", "marquee", "object", "template"}
ButtonScopeMarkers == ScopeMarkers \cup {"button"}
Headings == {"h1", "h2", "h3", "h4", "h5", "h6"}
ClosesP ==
    {"address", "article", "aside", "blockquote", "center", "details", "dialog", "dir", "div",
     "dl", "fieldset", "figcaption", "figure", "footer", "header", "hgroup", "main", "menu",
     "nav", "ol", "p", "section", "summary", "ul", "pre", "listing", "form", "hr", "li",
     "dd", "dt", "plaintext", "xmp"} \cup Headings
BlockEndTags ==
    {"address", "article", "aside", "blockquote", "button", "center", "details", "dialog",
     "dir", "div", "dl", "fieldset", "figcaption", "figure", "footer", "header", "hgroup",
     "listing", "main", "menu", "nav", "ol", "pre", "section", "summary", "ul"}
IgnoredInBody ==
    {"caption", "col", "colgroup", "frame", "head", "tbody", "td", "tfoot", "th", "thead",
     "tr", "html", "body"}
SpecialElements ==
    ClosesP \cup VoidElements \cup ButtonScopeMarkers \cup IgnoredInBody
    \cup {"basefont", "bgsound", "frameset", "iframe", "keygen", "noembed", "noframes",
          "noscript", "script", "select", "style", "textarea", "title"}

TreeInit == [stack |-> <<>>, out |-> <<>>]
\* the element is on the stack of open elements with no marker above it
InScope(stack, name, markers) ==
    \E k \in 1..Len(stack) :
        stack[k] = name /\ \A j \in (k + 1)..Len(stack) : stack[j] \notin markers
TopMost(stack, name) == CHOOSE k \in 1..Len(stack) :
    stack[k] = name /\ \A j \in (k + 1)..Len(stack) : stack[j] # name
\* pop the open elements down to and with the topmost one of this name
PopToIndex(st, k) ==
    [stack |-> SubSeq(st.stack, 1, k - 1),
     out |-> st.out \o [j \in 1..(Len(st.stack) - k + 1) |-> TokClose(st.stack[Len(st.stack) + 1 - j])]]
PopTo(st, name) == PopToIndex(st, TopMost(st.stack, name))
ClosePIfOpen(st) ==
    IF InScope(st.stack, "p", ButtonScopeMarkers) THEN PopTo(st, "p") ELSE st
Insert(st, tok) ==
    [stack |-> IF tok.name \in VoidElements THEN st.stack ELSE st.stack \o <<tok.name>>,
     out |-> st.out \o <<tok>>]
TreeOpen(st, tok) ==
    IF tok.name \in IgnoredInBody THEN st
    ELSE IF tok.name \in ClosesP THEN Insert(ClosePIfOpen(st), tok)
    ELSE IF tok.name = "button" /\ InScope(st.stack, "button", ScopeMarkers)
    THEN Insert(PopTo(st, "button"), tok)
    ELSE Insert(st, tok)
TreeClose(st, name) ==
    IF name = "p"
    THEN IF InScope(st.stack, "p", ButtonScopeMarkers) THEN PopTo(st, "p")
         ELSE [st EXCEPT !.out = @ \o <<TokOpen("p", <<>>), TokClose("p")>>]
    ELSE IF name = "br" THEN Insert(st, TokOpen("br", <<>>))
    ELSE IF name \in BlockEndTags
    THEN IF InScope(st.stack, name, ScopeMarkers) THEN PopTo(st, name) ELSE st
    ELSE IF InScope(st.stack, name, SpecialElements \ {name}) THEN PopTo(st, name)
    ELSE st
TreeStep(st, tok) ==
    CASE tok.t = "open" -> TreeOpen(st, tok)
      [] tok.t = "close" -> TreeClose(st, tok.name)
      [] OTHER -> [st EXCEPT !.out = @ \o <<tok>>]
TreeEnd(st) == IF st.stack = <<>> THEN st.out ELSE PopToIndex(st, 1).out
parse_fragment(html) == TreeEnd(FoldSeq(TreeStep, tokenize(html), TreeInit))

(* The policy of the Builder that sanitize_html configures.                 *)

\* Builder::default(): the tags, the attributes allowed on every tag, the URL
\* schemes; script and style elements go with their content
default_tags ==
    {"a", "abbr", "acronym", "area", "article", "aside", "b", "bdi", "bdo", "blockquote",
     "br", "caption", "center", "cite", "code", "col", "colgroup", "data", "dd", "del",
     "details", "dfn", "div", "dl", "dt", "em", "figcaption", "figure", "footer", "h1",
     "h2", "h3", "h4", "h5", "h6", "header", "hgroup", "hr", "i", "img", "ins", "kbd",
     "li", "map", "mark", "nav", "ol", "p", "pre", "q", "rp", "rt", "rtc", "ruby", "s",
     "samp", "small", "span", "strike", "strong", "sub", "summary", "sup", "table",
     "tbody", "td", "th", "thead", "time", "tr", "tt", "u", "ul", "var", "wbr"}
generic_attributes == {"lang", "title"}
clean_content_tags == {"script", "style"}
url_schemes ==
    {"bitcoin", "ftp", "ftps", "geo", "http", "https", "im", "irc", "ircs", "magnet",
     "mailto", "mms", "mx", "news", "nntp", "openpgp4fpr", "sip", "sms", "smsto", "ssh",
     "tel", "url", "webcal", "wtai", "xmpp"}

\* .tag_attributes(tag_attributes): this map takes the place of the default
tag_attributes ==
    [a |-> {"data-page"},
     span |-> {"data-tag", "data-block-id", "id"},
     div |-> {"data-page", "data-callout-type", "data-lang", "data-diagram"},
     button |-> {"onclick", "aria-label"},
     img |-> {"src", "alt", "loading"}]
\* a class list without the colour of the default callout type
callout_class_names_without_default ==
    {"callout-rosewater", "callout-flamingo", "callout-pink", "callout-mauve", "callout-red",
     "callout-maroon", "callout-peach", "callout-yellow", "callout-green", "callout-teal",
     "callout-sky", "callout-sapphire", "callout-blue", "callout-lavender"}
callout_class_names ==
    {"callout-rosewater", "callout-flamingo", "callout-pink", "callout-mauve", "callout-red",
     "callout-maroon", "callout-peach", "callout-yellow", "callout-green", "callout-teal",
     "callout-sky", "callout-sapphire", "callout-blue", "callout-lavender", "callout-surface2"}
div_classes ==
    {"obsidian-embed", "callout", "callout-header", "callout-content", "code-block",
     "code-header", "mermaid-diagram", "mermaid-loading", "mermaid-content"}
    \cup callout_class_names
allowed_classes ==
    [a |-> {"wiki-link"},
     span |-> {"inline-code", "bold", "italic", "strikethrough", "highlight", "fold-icon",
               "loading-icon"},
     div |-> div_classes,
     button |-> {"callout-fold", "code-copy"},
     code |-> {"inline-code"},
     mark |-> {"obsidian-highlight"},
     img |-> {"obsidian-embed-image"}]
link_rel == "noopener noreferrer"

AttrsAllowedOn(tag) ==
    generic_attributes \cup (IF tag \in DOMAIN tag_attributes THEN tag_attributes[tag] ELSE {})
ClassesAllowedOn(tag) == IF tag \in DOMAIN allowed_classes THEN allowed_classes[tag] ELSE {}

\* an attribute that holds a URL keeps a relative URL (UrlRelative::PassThrough)
\* and an absolute one of a listed scheme
url_scheme_re ==
    RSeq(<<RBot, RGrp(1, RSeq(<<RCh(Letter), RStar(RCh(AlphaNum \cup {"+", "-", "."}))>>)), RLit(":")>>)
IsUrlAttr(tag, n) ==
    \/ n = "href" /\ tag \in {"a", "area", "base", "link"}
    \/ n = "src" /\ tag \in {"img", "audio", "embed", "iframe", "input", "script", "source", "track", "video"}
    \/ n = "cite" /\ tag \in {"blockquote", "del", "ins", "q"}
UrlAllowed(v) ==
    Strict(MatchAt(url_scheme_re, Trim(v), 1), LAMBDA l :
        l = <<>> \/ to_lowercase(SubSeq(Trim(v), l[1][2][1][1], l[1][2][1][2] - 1)) \in url_schemes)
class_words(v) == SelectSeq(SplitAt(v, Positions(v, LAMBDA i : Ch(v, i) \in Space)), LAMBDA w : w # "")
clean_class(tag, v) == JoinStr(SelectSeq(class_words(v), LAMBDA w : w \in ClassesAllowedOn(tag)), " ")
\* a policy that keeps every attribute
attr_kept_always(tag, a) == TRUE
attr_kept(tag, a) ==
    IF a.n = "class" /\ tag \in DOMAIN allowed_classes THEN clean_class(tag, a.v) # ""
    ELSE a.n \in AttrsAllowedOn(tag) /\ (IsUrlAttr(tag, a.n) => UrlAllowed(a.v))
clean_attr(tag, a) ==
    IF a.n = "class" /\ tag \in DOMAIN allowed_classes THEN [n |-> "class", v |-> clean_class(tag, a.v)]
    ELSE a
clean_attrs(tag, as) ==
    Strict(SelectSeq(as, LAMBDA a : attr_kept(tag, a)), LAMBDA kept :
        [k \in 1..Len(kept) |-> clean_attr(tag, kept[k])]
        \o (IF tag = "a" THEN <<[n |-> "rel", v |-> link_rel]>> ELSE <<>>))
\* an element of a tag that is not allowed gives way to its children
clean_token(tok) ==
    CASE tok.t = "text" -> <<tok>>
      [] tok.name \notin default_tags -> <<>>
      [] tok.t = "open" -> <<TokOpen(tok.name, clean_attrs(tok.name, tok.attrs))>>
      [] OTHER -> <<tok>>
\* st.skip: how many elements deep inside a script or style element
Opens(tok) == tok.t = "open" /\ tok.name \notin VoidElements
clean_step(st, tok) ==
    IF st.skip > 0 \/ (tok.t = "open" /\ tok.name \in clean_content_tags)
    THEN [st EXCEPT !.skip = IF Opens(tok) THEN @ + 1 ELSE IF tok.t = "close" THEN @ - 1 ELSE @]
    ELSE [st EXCEPT !.out = @ \o clean_token(tok)]
clean_tokens(toks) == FoldSeq(clean_step, toks, [skip |-> 0, out |-> <<>>]).out

\* the serializer
escape_text(s) == ReplaceChar(ReplaceChar(ReplaceChar(s, "&", "&amp;"), "<", "&lt;"), ">", "&gt;")
escape_attr(s) == ReplaceChar(ReplaceChar(s, "&", "&amp;"), "\"", "&quot;")
serialize_attr(a) == " " \o a.n \o "=\"" \o escape_attr(a.v) \o "\""
serialize_token(tok) ==
    CASE tok.t = "text" -> escape_text(tok.s)
      [] tok.t = "open" ->
            "<" \o tok.name \o Concat([k \in 1..Len(tok.attrs) |-> serialize_attr(tok.attrs[k])]) \o ">"
      [] OTHER -> "</" \o tok.name \o ">"
serialize(toks) == Concat([k \in 1..Len(toks) |-> serialize_token(toks[k])])

Builder_clean(html) == clean_tokens(parse_fragment(html))
sanitize_html(html) == serialize(Builder_clean(html))

---------------------------------------------------------------------------
(* fn extract_tags, fn extract_links: the captures are collected in a       *)
(* HashSet and returned as a Vec in the set's iteration order, which the    *)
(* hasher's random seed decides: any ordering of the set can be returned.   *)

\* #([a-zA-Z][a-zA-Z0-9_-]*)
extract_tags_re ==
    RSeq(<<RLit("#"), RGrp(1, RSeq(<<RCh(Letter), RStar(RCh(AlphaNum \cup {"_", "-"}))>>))>>)
extract_tags_set(s) == CapSet(s, captures_iter(extract_tags_re, s), 1)
extract_tags(s) == Orderings(extract_tags_set(s))

\* a pattern whose group 1 does not stop at the pipe: \[\[([^\]]+)(?:\|[^\]]+)?\]\]
extract_links_re_through_pipe ==
    RSeq(<<RLit("[["), RGrp(1, RPlus(RNot({"]"}))),
           ROpt(RSeq(<<RLit("|"), RPlus(RNot({"]"}))>>)), RLit("]]")>>)
\* \[\[([^\]|]+)(?:\|[^\]]+)?\]\]
extract_links_re ==
    RSeq(<<RLit("[["), RGrp(1, RPlus(RNot({"]", "|"}))),
           ROpt(RSeq(<<RLit("|"), RPlus(RNot({"]"}))>>)), RLit("]]")>>)
extract_links_set(s) == CapSet(s, captures_iter(extract_links_re, s), 1)
extract_links(s) == Orderings(extract_links_set(s))

---------------------------------------------------------------------------
(* The utility functions called on a raw document (handlers/admin.rs calls  *)
(* extract_tags on a post body, handlers/posts.rs extract_links), next to   *)
(* the preprocessor run on the same document.                               *)

UtilPieces == {"[[a]]", "[[a|b]]", "[[B c", "|d]]", "]]", "a", " ", "#a", "#b-1", "\n"}
UtilInputs == Concats(UtilPieces, MaxUtilPieces)

\* the iterator over the events of a document: the events it yields and how
\* many of them it has yielded
ParserOver(evs) == [events |-> evs, yielded |-> 0]
NoParser == ParserOver(<<>>)
HasNext(it) == it.yielded < Len(it.events)
NextEvent(it) == it.events[it.yielded + 1]

RenderIdle ==
    /\ parser = NoParser /\ events = <<>> /\ in_code_block = FALSE
    /\ code_lang = "" /\ html_output = ""
renderVars == <<parser, events, in_code_block, code_lang, html_output>>
\* no text utility has been called and no concurrent call exists
StoreIdle == posts = <<>> /\ now = 0
storeVars == <<posts, now>>
RestIdle == max_length = 0 /\ result = "" /\ calls = <<>> /\ StoreIdle
restVars == <<max_length, result, calls, storeVars>>

UtilInit ==
    /\ pc = "util"
    /\ content \in UtilInputs
    /\ processed = ""
    /\ called = <<>>
    /\ tags = <<>>
    /\ links = <<>>
    /\ RenderIdle
    /\ RestIdle

CallExtractTags ==
    /\ pc = "util" /\ "extract_tags" \notin Range(called)
    /\ tags' \in extract_tags(content)
    /\ called' = Append(called, "extract_tags")
    /\ UNCHANGED <<pc, content, processed, links, renderVars, restVars>>

CallExtractLinks ==
    /\ pc = "util" /\ "extract_links" \notin Range(called)
    /\ links' \in extract_links(content)
    /\ called' = Append(called, "extract_links")
    /\ UNCHANGED <<pc, content, processed, tags, renderVars, restVars>>

CallPreprocess ==
    /\ pc = "util" /\ "preprocess_obsidian_syntax" \notin Range(called)
    /\ processed' = preprocess_obsidian_syntax(content)
    /\ called' = Append(called, "preprocess_obsidian_syntax")
    /\ UNCHANGED <<pc, content, tags, links, renderVars, restVars>>

UtilNext == CallExtractTags \/ CallExtractLinks \/ CallPreprocess
SpecUtil == UtilInit /\ [][UtilNext]_vars

---------------------------------------------------------------------------
(* fn render_obsidian_markdown as a state machine. pc: the statement the    *)
(* call is at; called: the stages run so far, in order. The loop            *)
(* `for event in parser` takes one step for each event.                     *)

RenderPieces ==
    {"[[My Page]]", "[[My Page|See this]]", "[[R&D]]", "![[f.xyz]] [[a",
     "~~~js\n<script>alert(1)</script>\n~~~\n",
     "<blockquote><p>[!zz]</p>x</blockquote>",
     "<b onclick=x>t</b><script>alert(1)</script>",
     "<p><button><p>x</p></button></p>", "\n"}
RenderInputs == Concats(RenderPieces, MaxRenderPieces)

\* &caps[n] panics when group n took no part in the match; caps.get(n) does
\* not. The groups each closure indexes:
wiki_link_indexed == {1}
tag_indexed == {1}
block_id_indexed == {1}
embed_indexed == {1}
callout_indexed_all == {1, 2, 3}         \* were the title read as &caps[2]
callout_indexed == {1, 3}
mermaid_indexed == {1}
IndexPanics(re, s, indexed) ==
    Strict(captures_iter(re, s), LAMBDA ms :
        \E k \in 1..Len(ms) : \E n \in indexed : ~HasCap(ms[k], n))
preprocess_panics(s) ==
    \/ IndexPanics(wiki_link_re, s, wiki_link_indexed)
    \/ IndexPanics(tag_re, wiki_link_rule(s), tag_indexed)
    \/ IndexPanics(block_id_re, tag_rule(wiki_link_rule(s)), block_id_indexed)
    \/ IndexPanics(embed_re, block_id_rule(tag_rule(wiki_link_rule(s))), embed_indexed)

Init ==
    /\ pc = "preprocess"
    /\ content \in RenderInputs
    /\ processed = ""
    /\ called = <<>>
    /\ tags = <<>>
    /\ links = <<>>
    /\ RenderIdle
    /\ RestIdle

\* let processed = preprocess_obsidian_syntax(content);
Preprocess ==
    /\ pc = "preprocess"
    /\ IF preprocess_panics(content)
       THEN pc' = "panicked" /\ UNCHANGED processed
       ELSE pc' = "parse" /\ processed' = preprocess_obsidian_syntax(content)
    /\ called' = Append(called, "preprocess")
    /\ UNCHANGED <<content, tags, links, renderVars, restVars>>

\* let parser = Parser::new_ext(&processed, options); and the three `let mut`
Parse ==
    /\ pc = "parse"
    /\ parser' = ParserOver(Parser_new_ext(processed))
    /\ in_code_block' = FALSE
    /\ code_lang' = ""
    /\ events' = <<>>
    /\ pc' = "loop"
    /\ called' = Append(called, "parse")
    /\ UNCHANGED <<content, processed, tags, links, html_output, restVars>>

\* one turn of `for event in parser`
LoopStep ==
    /\ pc = "loop" /\ HasNext(parser)
    /\ LET r == transform_event(NextEvent(parser), in_code_block, code_lang) IN
         /\ events' = Append(events, r.ev)
         /\ in_code_block' = r.in_code_block
         /\ code_lang' = r.code_lang
    /\ parser' = [parser EXCEPT !.yielded = @ + 1]
    /\ UNCHANGED <<pc, content, processed, called, tags, links, html_output, restVars>>

\* html::push_html(&mut html_output, events.into_iter());
PushHtml ==
    /\ pc = "loop" /\ ~HasNext(parser)
    /\ html_output' = push_html("", events)
    /\ pc' = "callouts"
    /\ called' = Append(called, "push_html")
    /\ UNCHANGED <<content, processed, tags, links, parser, events, in_code_block,
                 code_lang, restVars>>

\* a pipeline without the highlight stage
CalloutsThenMermaid ==
    /\ pc = "callouts"
    /\ html_output' = postprocess_callouts(html_output)
    /\ pc' = "mermaid"
    /\ called' = Append(called, "callouts")
    /\ UNCHANGED <<content, processed, tags, links, parser, events, in_code_block,
                 code_lang, restVars>>

Callouts ==
    /\ pc = "callouts"
    /\ IF IndexPanics(callout_re, html_output, callout_indexed)
       THEN pc' = "panicked" /\ UNCHANGED html_output
       ELSE pc' = "highlights" /\ html_output' = postprocess_callouts(html_output)
    /\ called' = Append(called, "callouts")
    /\ UNCHANGED <<content, processed, tags, links, parser, events, in_code_block,
                 code_lang, restVars>>

Highlights ==
    /\ pc = "highlights"
    /\ html_output' = postprocess_highlights(html_output)
    /\ pc' = "mermaid"
    /\ called' = Append(called, "highlights")
    /\ UNCHANGED <<content, processed, tags, links, parser, events, in_code_block,
                 code_lang, restVars>>

Mermaid ==
    /\ pc = "mermaid"
    /\ IF IndexPanics(mermaid_re, html_output, mermaid_indexed)
       THEN pc' = "panicked" /\ UNCHANGED html_output
       ELSE pc' = "sanitize" /\ html_output' = postprocess_mermaid_diagrams(html_output)
    /\ called' = Append(called, "mermaid")
    /\ UNCHANGED <<content, processed, tags, links, parser, events, in_code_block,
                 code_lang, restVars>>

\* sanitize_html(&html_output), the value the call returns
Sanitize ==
    /\ pc = "sanitize"
    /\ html_output' = sanitize_html(html_output)
    /\ pc' = "done"
    /\ called' = Append(called, "sanitize")
    /\ UNCHANGED <<content, processed, tags, links, parser, events, in_code_block,
                 code_lang, restVars>>

Next ==
    \/ Preprocess \/ Parse \/ LoopStep \/ PushHtml
    \/ Callouts \/ Highlights \/ Mermaid \/ Sanitize
Spec == Init /\ [][Next]_vars
\* the call is not suspended: while a statement of the function can run, one
\* does. This is WF_vars(Next) with ENABLED <<Next>>_vars written out: the
\* guard of every action is the position of the call (the loop has an action
\* for an iterator with a next event and one for an iterator without), and
\* what an action assigns is a function of the state.
Running == pc \in {"preprocess", "parse", "loop", "callouts", "highlights", "mermaid", "sanitize"}
SpecLive == Spec /\ ([]<>~Running \/ []<><<Next>>_vars)

---------------------------------------------------------------------------
(* Properties of the utility functions.                                     *)

NoDuplicates(seq) == \A i, j \in 1..Len(seq) : seq[i] = seq[j] => i = j
\* the values of an attribute written name="value" in a piece of HTML
AttrValueRe(name) ==
    RSeq(<<RLit(name \o "=\""), RGrp(1, RStar(RNot({"\""}))), RLit("\"")>>)
AttrValues(html, name) == CapSet(html, captures_iter(AttrValueRe(name), html), 1)
Returned(f) == f \in Range(called)

\* C9: extract_tags returns each name once, and the names are those that the
\* preprocessor's tag rule, which asks for the start of the text or a white
\* space before the '#', writes into data-tag attributes.
C9_TagsAreTheInlineTags ==
    Returned("extract_tags") =>
        /\ NoDuplicates(tags)
        /\ Range(tags) = AttrValues(tag_rule(content), "data-tag")

\* C10: extract_links returns each target once, and the targets are the
\* data-page values that the preprocessor's wiki-link rule writes.
C10_LinksAreTheDataPages ==
    Returned("extract_links") =>
        /\ NoDuplicates(links)
        /\ Range(links) = AttrValues(wiki_link_rule(content), "data-page")
\* a document that names one target twice, once with a display text
C10_Witness ==
    /\ Returned("extract_links")
    /\ content = "[[a]][[a|b]]"
    /\ links = <<"a">>

---------------------------------------------------------------------------
(* Properties of render_obsidian_markdown.                                  *)

Done == pc = "done"
\* the elements of a piece of HTML, as their start tags
Elements(html) == SelectSeq(tokenize(html), LAMBDA tok : tok.t = "open")
AttrOf(el, name) == {el.attrs[k].v : k \in {j \in 1..Len(el.attrs) : el.attrs[j].n = name}}
\* the targets of the wiki-links of a document
WikiTargets(s) == CapSet(s, captures_iter(wiki_link_re, s), 1)

\* what the policy of sanitize_html permits on an element
AttrPermitted(tag, a) ==
    IF a.n = "class" THEN Range(class_words(a.v)) \subseteq ClassesAllowedOn(tag)
    ELSE \/ a.n \in AttrsAllowedOn(tag)
         \/ tag = "a" /\ a.n = "rel" /\ a.v = link_rel
ElementPermitted(el) ==
    /\ el.name \in default_tags
    /\ \A k \in 1..Len(el.attrs) : AttrPermitted(el.name, el.attrs[k])

\* C1: the HTML that render returns has only elements of permitted tags, and
\* on each of them only attributes and class values permitted for the tag.
C1_OnlyPermittedMarkup ==
    Done => Strict(Elements(html_output), LAMBDA els : \A k \in 1..Len(els) : ElementPermitted(els[k]))
\* a document with an event handler attribute and a script element
C1_Witness ==
    /\ Done
    /\ content = "<b onclick=x>t</b><script>alert(1)</script>"
    /\ html_output = "<p><b>t</b></p>\n"

\* C2: the user text that the preprocessor writes into attributes went through
\* escape_html first: the data-page values are the escaped wiki-link targets.
C2_InsertedTextIsEscaped ==
    pc = "parse" =>
        AttrValues(processed, "data-page") = {escape_html(target) : target \in WikiTargets(content)}

\* C4: for every wiki-link of the document, the HTML that render returns has
\* an anchor with href /blogs/<slugify(target)> and data-page the target.
C4_AnchorKeepsHrefAndDataPage ==
    Done => Strict(Elements(html_output), LAMBDA els :
                \A target \in WikiTargets(content) : \E k \in 1..Len(els) :
                    /\ els[k].name = "a"
                    /\ AttrOf(els[k], "href") = {"/blogs/" \o slugify(target)}
                    /\ AttrOf(els[k], "data-page") = {target})

\* C8: sanitizing the HTML that render returns once more leaves it as it is.
C8_SanitizeIsIdempotent ==
    Done => sanitize_html(html_output) = html_output

IsCodeBlockEnd(ev) == ev.k = "End" /\ ev.tag = "CodeBlock"
\* after the first n events, a code block is open
InsideCodeBlock(evs, n) ==
    \E i \in 1..n : IsCodeBlockStart(evs[i]) /\ \A j \in (i + 1)..n : ~IsCodeBlockEnd(evs[j])
\* out is text HTML-escaped: none of < > " ' in it, and it reads back as text
HtmlEscaped(out, text) ==
    /\ \A i \in 1..Len(out) : Ch(out, i) \notin {"<", ">", "\"", "'"}
    /\ decode_entities(out) = text
\* the texts of the events of evs that lie in a code block
CodeBlockTexts(evs) ==
    {evs[k].s : k \in {j \in 1..Len(evs) : evs[j].k = "Text" /\ InsideCodeBlock(evs, j - 1)}}
\* toks has a code element whose only content is a text that contains s
InCodeElement(toks, s) ==
    \E k \in 1..(Len(toks) - 2) :
        /\ toks[k].t = "open" /\ toks[k].name = "code"
        /\ toks[k + 1].t = "text" /\ Contains(toks[k + 1].s, s)
        /\ toks[k + 2].t = "close" /\ toks[k + 2].name = "code"

WikiLinks(s) == captures_iter(wiki_link_re, s)
WikiInner(s, m) == SubSeq(s, m.start + 2, m.end - 3)
FirstPipe(inner) ==
    IF \E i \in 1..Len(inner) : Ch(inner, i) = "|"
    THEN CHOOSE i \in 1..Len(inner) : Ch(inner, i) = "|" /\ \A j \in 1..(i - 1) : Ch(inner, j) # "|"
    ELSE 0
WikiTarget(inner) == IF FirstPipe(inner) = 0 THEN inner ELSE SubSeq(inner, 1, FirstPipe(inner) - 1)
WikiDisplay(inner) ==
    IF FirstPipe(inner) = 0 THEN inner ELSE SubSeq(inner, FirstPipe(inner) + 1, Len(inner))
\* the anchor for a target, showing text
WikiAnchor(target, text) == wiki_link_fmt(slugify(target), target, text)

\* C5: the preprocessed text has, in place of every wiki-link, an anchor that
\* shows the display part if the link has one and the target if not, and
\* whose href is made of the target alone.
C5_AnchorShowsDisplayOrTarget ==
    pc = "parse" =>
        Strict(WikiLinks(content), LAMBDA ms :
            processed = Splice(content, ms,
                [k \in 1..Len(ms) |-> WikiAnchor(WikiTarget(WikiInner(content, ms[k])),
                                                 WikiDisplay(WikiInner(content, ms[k])))]))
\* one target written with a display text and without: the same href twice
C5_Witness ==
    /\ pc = "parse"
    /\ content = "[[My Page|See this]][[My Page]]"
    /\ processed = "<a href=\"/blogs/my-page\" class=\"wiki-link\" data-page=\"My Page\"><span class=\"link-icon\"></span> See this</a>"
                   \o "<a href=\"/blogs/my-page\" class=\"wiki-link\" data-page=\"My Page\"><span class=\"link-icon\"></span> My Page</a>"

\* the stages of a call in the order of the function body, and the statement
\* the call is at once the first n of them have run
StageOrder == <<"preprocess", "parse", "push_html", "callouts", "highlights", "mermaid", "sanitize">>
PcAfter(n) ==
    CASE n = 0 -> {"preprocess"} [] n = 1 -> {"parse"} [] n = 2 -> {"loop"} [] n = 3 -> {"callouts"}
      [] n = 4 -> {"highlights"} [] n = 5 -> {"mermaid"} [] n = 6 -> {"sanitize"} [] OTHER -> {"done"}
\* the stages as functions, each applied to the result of the one before
Pipeline(s) ==
    Strict(preprocess_obsidian_syntax(s), LAMBDA text :
    Strict(Parser_new_ext(text), LAMBDA parsed :
    Strict(push_html("", transform_events(parsed)), LAMBDA html :
    Strict(postprocess_callouts(html), LAMBDA with_callouts :
    Strict(postprocess_highlights(with_callouts), LAMBDA with_highlights :
    Strict(postprocess_mermaid_diagrams(with_highlights), LAMBDA with_diagrams :
        sanitize_html(with_diagrams)))))))

\* C6: the stages run once each in the order preprocess, parse and re-emit,
\* callouts, highlights, mermaid, sanitize; what is returned is the stages
\* applied one to the result of the other, and nothing runs after the sanitizer.
C6_StagesOnceInOrder ==
    /\ called = SubSeq(StageOrder, 1, Len(called))
    /\ pc \in PcAfter(Len(called))
    /\ Done => html_output = Pipeline(content) /\ ~ENABLED Next
\* a call that has returned, for a document that every stage rewrites
C6_Witness ==
    /\ Done
    /\ called = StageOrder
    /\ content = "<blockquote><p>[!zz]</p>x</blockquote>[[My Page]]"
    /\ html_output # content

\* C7: a call of render returns, whatever the document, and no stage panics.
C7_RenderReturns == [](pc # "panicked") /\ <>Done
\* a call that has returned for a document with an embed of an unknown
\* extension, an unbalanced bracket and a callout of an unknown type
C7_Witness ==
    /\ Done
    /\ content = "<blockquote><p>[!zz]</p>x</blockquote>![[f.xyz]] [[a"
    /\ Contains(html_output, "callout-surface2")
    /\ Contains(html_output, " [[a")

---------------------------------------------------------------------------
(* The text utilities, each called once on an input of its own: the        *)
(* variables of render and of the other utilities stay as they start.       *)

TextIdle ==
    /\ processed = "" /\ called = <<>> /\ tags = <<>> /\ links = <<>>
    /\ result = "" /\ calls = <<>> /\ RenderIdle /\ StoreIdle
textFrame == <<pc, content, processed, tags, links, max_length, calls, renderVars, storeVars>>

ToUpperCh(c) ==
    IF c \in Lower THEN Ch(UpperStr, CHOOSE i \in 1..Len(LowerStr) : Ch(LowerStr, i) = c)
    ELSE c
to_uppercase(s) == MapStr(s, ToUpperCh)
Capitalized(s) == IF s = "" THEN s ELSE ToUpperCh(Ch(s, 1)) \o SubSeq(s, 2, Len(s))

---------------------------------------------------------------------------
(* CalloutType::from_str called on a label.                                 *)

\* the string patterns of the match arms of from_str
KnownLabels ==
    {"note", "info", "tip", "hint", "important", "warning", "caution", "attention",
     "danger", "error", "success", "check", "done", "question", "help", "faq",
     "example", "quote", "cite", "bug", "abstract", "summary", "tldr", "code",
     "snippet", "todo", "task"}
\* labels: at most this many pieces of LabelPieces, next to the known names
\* in lower case, in upper case and capitalized
MaxLabelPieces == 2
LabelPieces == {"no", "te", "NO", "tE", "s", "xyz", "Warn", "ing", " ", "-1"}
LabelInputs ==
    KnownLabels \cup {to_uppercase(l) : l \in KnownLabels}
    \cup {Capitalized(l) : l \in KnownLabels} \cup Concats(LabelPieces, MaxLabelPieces)

CalloutInit ==
    /\ pc = "from_str"
    /\ content \in LabelInputs
    /\ max_length = 0
    /\ TextIdle

CallFromStr ==
    /\ pc = "from_str" /\ called = <<>>
    /\ result' = CalloutType_from_str(content)
    /\ called' = <<"from_str">>
    /\ UNCHANGED textFrame

SpecCallout == CalloutInit /\ [][CallFromStr]_vars

\* C11: from_str gives a label the classification of the label in lower
\* case; "note" is blue and "warning" is yellow; a label that, in lower case,
\* is none of the known names and aliases gets the default classification,
\* named "note" and coloured surface2.
C11_LookupIsTotalAndCaseInsensitive ==
    Returned("from_str") =>
        /\ result = CalloutType_from_str(to_lowercase(content))
        /\ DOMAIN result = {"name", "icon", "color"}
        /\ content = "note" => result.color = "blue"
        /\ content = "warning" => result.color = "yellow"
        /\ to_lowercase(content) \notin KnownLabels =>
               result.name = "note" /\ result.color = "surface2"
\* a known alias written in capitals, classified as its lower-case form is
C11_Witness ==
    /\ Returned("from_str")
    /\ content = "CAUTION"
    /\ result.name = "warning" /\ result.color = "yellow"
\* a label that is no known name, classified by default
C11_WitnessUnknown ==
    /\ Returned("from_str")
    /\ content = "xyz"
    /\ result.color = "surface2"

---------------------------------------------------------------------------
(* fn calculate_reading_time.                                               *)

\* content.split_whitespace().count(): the maximal runs of characters that
\* are not white space, counted by their first characters
split_whitespace_count(s) ==
    Cardinality({i \in 1..Len(s) : Ch(s, i) \notin Space /\ (i = 1 \/ Ch(s, i - 1) \in Space)})

\* 200.0, the words read in a minute
WordsPerMinute == 200
\* f64::ceil of the quotient of two whole numbers. The f64 division is exact
\* for counts below 2^53 and `as u32` keeps a value below 2^32, that is up
\* to 858 993 459 000 words: the texts of this model are far below both.
ceil_quotient(n, d) == (n + d - 1) \div d
\* a reading time that rounds down
reading_time_floor(word_count) == word_count \div WordsPerMinute
\* (word_count as f64 / 200.0).ceil() as u32
reading_time(word_count) == ceil_quotient(word_count, WordsPerMinute)

\* format!("{}", n) of an unsigned integer
RECURSIVE to_decimal(_)
to_decimal(n) ==
    IF n < 10 THEN Ch("0123456789", n + 1)
    ELSE to_decimal(n \div 10) \o Ch("0123456789", (n % 10) + 1)

calculate_reading_time(s) ==
    LET word_count == split_whitespace_count(s)
        minutes == reading_time(word_count)
    IN IF minutes <= 1 THEN "1 min read" ELSE to_decimal(minutes) \o " min read"

\* n copies of s, by halves
RECURSIVE Repeat(_, _)
Repeat(s, n) ==
    IF n = 0 THEN ""
    ELSE Strict(Repeat(s, n \div 2), LAMBDA h : IF n % 2 = 1 THEN h \o h \o s ELSE h \o h)

\* texts: at most this many repetitions of a word with its white space
MaxWords == 401
ReadingWords == {"word ", " a\n", "b\t\n c "}
ReadingInputs == {"hello world"} \cup {Repeat(w, n) : w \in ReadingWords, n \in 0..MaxWords}

ReadingInit ==
    /\ pc = "calculate_reading_time"
    /\ content \in ReadingInputs
    /\ max_length = 0
    /\ TextIdle

CallReadingTime ==
    /\ pc = "calculate_reading_time" /\ called = <<>>
    /\ result' = calculate_reading_time(content)
    /\ called' = <<"calculate_reading_time">>
    /\ UNCHANGED textFrame

SpecReading == ReadingInit /\ [][CallReadingTime]_vars

\* the words of a text: what is left between its white-space characters
Words(s) ==
    SelectSeq(SplitAt(s, Positions(s, LAMBDA i : Ch(s, i) \in Space)), LAMBDA w : w # "")
\* the least whole number of units of d that hold n
Ceiling(n, d) == CHOOSE k \in 0..n : k * d >= n /\ (k = 0 \/ (k - 1) * d < n)

\* C12: for a text of n words the label is "1 min read" when ceil(n/200) is
\* at most 1, n = 0 included, and "<ceil(n/200)> min read" otherwise: 2 words
\* give 1, 400 words give 2 and 401 words give 3.
C12_ReadingTimeIsCeilingOfWordsBy200 ==
    Returned("calculate_reading_time") =>
        LET n == Len(Words(content))
            m == Ceiling(n, 200)
        IN /\ m <= 1 => result = "1 min read"
           /\ m > 1 => result = to_decimal(m) \o " min read"
           /\ n \in {0, 2} => result = "1 min read"
           /\ n = 400 => result = "2 min read"
           /\ n = 401 => result = "3 min read"
\* the label of a text of 401 words
C12_Witness ==
    /\ Returned("calculate_reading_time")
    /\ content = Repeat("word ", 401)
    /\ result = "3 min read"

---------------------------------------------------------------------------
(* fn strip_first_heading.                                                  *)

\* the 0-based offsets at which pat occurs in s
Occurrences(s, pat) == {i - 1 : i \in {j \in 1..(Len(s) - Len(pat) + 1) : SubSeq(s, j, j + Len(pat) - 1) = pat}}
\* a search that returns the last occurrence
find_last(s, pat) == IF Occurrences(s, pat) = {} THEN -1 ELSE Max(Occurrences(s, pat))
\* str::find(pat): Some(offset of the first occurrence), or None (here -1)
find(s, pat) == IF Occurrences(s, pat) = {} THEN -1 ELSE Min(Occurrences(s, pat))

strip_first_heading(s) ==
    LET pos == find(s, "\n\n")
    IN IF StartsWith(s, "# ") /\ pos # -1 THEN SubSeq(s, pos + 3, Len(s)) ELSE s

\* documents: at most this many pieces of HeadingPieces
MaxHeadingPieces == 3
HeadingPieces == {"# ", "#", "# Title", "T", "\n", "\n\n", "Body text", " "}
HeadingInputs == Concats(HeadingPieces, MaxHeadingPieces)

HeadingInit ==
    /\ pc = "strip_first_heading"
    /\ content \in HeadingInputs
    /\ max_length = 0
    /\ TextIdle

CallStripFirstHeading ==
    /\ pc = "strip_first_heading" /\ called = <<>>
    /\ result' = strip_first_heading(content)
    /\ called' = <<"strip_first_heading">>
    /\ UNCHANGED textFrame

SpecHeading == HeadingInit /\ [][CallStripFirstHeading]_vars

\* the positions (1-based) where a blank line, two newlines in a row, begins
BlankLines(s) == {i \in 1..(Len(s) - 1) : Ch(s, i) = "\n" /\ Ch(s, i + 1) = "\n"}

\* C13: a document whose first two characters are "# " comes back without
\* everything up to and including its first blank line; a document that does
\* not begin with "# " comes back unchanged.
C13_StripsThroughFirstBlankLine ==
    Returned("strip_first_heading") =>
        /\ (StartsWith(content, "# ") /\ BlankLines(content) # {}) =>
               result = SubSeq(content, Min(BlankLines(content)) + 2, Len(content))
        /\ ~StartsWith(content, "# ") => result = content
        /\ content = "# Title\n\nBody text" => result = "Body text"
\* the heading and the blank line are gone, the body is left
C13_Witness ==
    /\ Returned("strip_first_heading")
    /\ content = "# Title\n\nBody text"
    /\ result = "Body text"

---------------------------------------------------------------------------
(* fn extract_excerpt.                                                      *)

\* Parser::new(&plain): the parser without options. Of the options that
\* new_ext is given, the part of Markdown modelled here feels only smart
\* punctuation: the quotation marks stay as they are written.
plain_punctuation(ev) ==
    IF ev.k # "Text" THEN ev
    ELSE IF ev.s \in {LeftDoubleQuote, RightDoubleQuote} THEN EvText("\"")
    ELSE IF ev.s = RightSingleQuote THEN EvText("'")
    ELSE ev
Parser_new(s) ==
    Strict(Parser_new_ext(s), LAMBDA evs : [k \in 1..Len(evs) |-> plain_punctuation(evs[k])])

\* a character that takes two bytes in UTF-8, U+00E9, is written as the
\* character below; every other character of the model takes one byte
EAcute == "@"
\* str::len(): the length in bytes
str_len(s) == Len(s) + Cardinality({i \in 1..Len(s) : Ch(s, i) = EAcute})

\* the replacement strings "$2", "" and "$1": a group that took no part in
\* the match expands to the empty string
expand_group(s, m, n) == IF HasCap(m, n) THEN Cap(s, m, n) ELSE ""
excerpt_wiki_link_repl(s, m) == expand_group(s, m, 2)
\* #[a-zA-Z][a-zA-Z0-9_-]*
excerpt_tag_re == RSeq(<<RLit("#"), RCh(Letter), RStar(RCh(AlphaNum \cup {"_", "-"}))>>)
excerpt_tag_repl(s, m) == ""
excerpt_highlight_repl(s, m) == expand_group(s, m, 1)
\* the three replace_all passes; the patterns of the first and the third are
\* those of wiki_link_re and highlight_re
excerpt_plain(s) ==
    Strict(replace_all(wiki_link_re, s, excerpt_wiki_link_repl), LAMBDA a :
    Strict(replace_all(excerpt_tag_re, a, excerpt_tag_repl), LAMBDA b :
           replace_all(highlight_re, b, excerpt_highlight_repl)))

\* the body of `for event in parser`
excerpt_push(plain_text, ev) ==
    CASE ev.k = "Text" -> plain_text \o ev.s
      [] ev.k \in {"SoftBreak", "HardBreak"} -> plain_text \o " "
      [] OTHER -> plain_text
excerpt_plain_text(s) == FoldSeq(excerpt_push, Parser_new(excerpt_plain(s)), "")

\* excerpt.rfind(' '): the characters before the last space, or None (-1)
rfind_space(s) ==
    IF \A i \in 1..Len(s) : Ch(s, i) # " " THEN -1
    ELSE Max({i \in 1..Len(s) : Ch(s, i) = " "}) - 1
\* plain_text.chars().take(max_length), cut before its last space if it has one
excerpt_truncated(plain_text, n) ==
    LET excerpt == SubSeq(plain_text, 1, Min({n, Len(plain_text)}))
        last_space == rfind_space(excerpt)
    IN IF last_space # -1 THEN SubSeq(excerpt, 1, last_space) ELSE excerpt
extract_excerpt(s, n) ==
    Strict(excerpt_plain_text(s), LAMBDA plain_text :
        IF str_len(plain_text) <= n THEN plain_text
        ELSE Trim(excerpt_truncated(plain_text, n)) \o "...")

\* texts: at most MaxExcerptPieces pieces of ExcerptPieces; lengths asked
\* for: 0 to MaxExcerptLength
MaxExcerptPieces == 2
MaxExcerptLength == 6
ExcerptPieces ==
    {"abcdefgh", "ab cd", " ", "\n", "[[p|q r]]", "[[p]]", "#t", "==hi==", "@", "~c d~"}
ExcerptInputs == Concats(ExcerptPieces, MaxExcerptPieces)

ExcerptInit ==
    /\ pc = "extract_excerpt"
    /\ content \in ExcerptInputs
    /\ max_length \in 0..MaxExcerptLength
    /\ processed = "" /\ called = <<>> /\ tags = <<>> /\ links = <<>>
    /\ result = "" /\ calls = <<>> /\ RenderIdle /\ StoreIdle

CallExtractExcerpt ==
    /\ pc = "extract_excerpt" /\ called = <<>>
    /\ result' = extract_excerpt(content, max_length)
    /\ called' = <<"extract_excerpt">>
    /\ UNCHANGED textFrame

SpecExcerpt == ExcerptInit /\ [][CallExtractExcerpt]_vars

\* res is plain cut after its first cut characters, where a white-space
\* character follows and none comes after that one among the first n
\* characters, and then the ellipsis
CutAtLastBoundary(plain, n, cut, res) ==
    /\ Ch(plain, cut + 1) \in Space
    /\ \A c \in (cut + 2)..n : Ch(plain, c) \notin Space
    /\ res = Trim(SubSeq(plain, 1, cut)) \o "..."

\* C14: a plain text of at most max_len characters is returned whole, without
\* an ellipsis; a longer one is cut at the last white-space boundary within
\* its first max_len characters, never inside a word, and the ellipsis
\* follows. The boundary may be the one right after max_len characters.
C14_ExcerptCutsAtWordBoundary ==
    Returned("extract_excerpt") =>
        LET plain == excerpt_plain_text(content)
        IN IF Len(plain) <= max_length THEN result = plain
           ELSE \E cut \in 0..max_length : CutAtLastBoundary(plain, max_length, cut, result)

---------------------------------------------------------------------------
(* fn preprocess_obsidian_syntax called on documents that show its four     *)
(* rules and what escapes them.                                             *)

\* documents: at most this many pieces of PreprocessPieces
MaxPreprocessPieces == 2
PreprocessPieces ==
    {"[[", "]]", "[[]]", "[[a", "|b", "![[", "![[p.PNG]]", "![[n o.md]]", "p.png",
     "#t", "^b-1", "\n", " ", "x", "~~~\nx y\n~~~\n"}
PreprocessInputs == Concats(PreprocessPieces, MaxPreprocessPieces)

PreprocessInit ==
    /\ pc = "util"
    /\ content \in PreprocessInputs
    /\ max_length = 0
    /\ TextIdle

SpecPreprocess == PreprocessInit /\ [][CallPreprocess]_vars

\* the characters of s that make up bracket syntax, in their order
BracketChars == {"[", "]", "|", "!"}
BracketText(s) == MapStr(s, LAMBDA c : IF c \in BracketChars THEN c ELSE "")
Embeds(s) == captures_iter(embed_re, s)
\* s[i..j] is [[inner]] with an inner text that has no closing bracket
Bracketed(s, i, j) ==
    /\ i + 2 <= j - 2
    /\ SubSeq(s, i, i + 1) = "[[" /\ SubSeq(s, j - 1, j) = "]]"
    /\ \A k \in (i + 2)..(j - 2) : Ch(s, k) # "]"
\* the inner text is a target, or a target, a pipe and a display text
LinkText(inner) ==
    /\ Ch(inner, 1) # "|"
    /\ FirstPipe(inner) # Len(inner)
HasWikiLink(s) ==
    \E i \in 1..Len(s) : \E j \in i..Len(s) :
        Bracketed(s, i, j) /\ LinkText(SubSeq(s, i + 2, j - 2))
HasEmbed(s) ==
    \E i \in 2..Len(s) : \E j \in i..Len(s) : Ch(s, i - 1) = "!" /\ Bracketed(s, i, j)

\* C15: in a document where neither the wiki-link pattern nor the embed
\* pattern matches, the preprocessor does not fail, only the tag and block
\* rules act, the bracket characters come out as they went in, and the
\* output has no anchor, image or embed markup.
C15_UnmatchedBracketsStayLiteral ==
    (Returned("preprocess_obsidian_syntax") /\ ~HasWikiLink(content) /\ ~HasEmbed(content)) =>
        /\ ~preprocess_panics(content)
        /\ processed = block_id_rule(tag_rule(content))
        /\ BracketText(processed) = BracketText(content)
        /\ ~Contains(processed, "<a ")
        /\ ~Contains(processed, "<img")
        /\ ~Contains(processed, "obsidian-embed")
\* an empty link and a link that is never closed, returned as they are
C15_Witness ==
    /\ Returned("preprocess_obsidian_syntax")
    /\ content = "[[]][[a"
    /\ processed = "[[]][[a"

---------------------------------------------------------------------------
(* Calls of render_obsidian_markdown running at the same time. What a call  *)
(* works on are its argument and its `let` bindings (the patterns are       *)
(* compiled inside the functions, the sanitizer's Builder is built inside   *)
(* sanitize_html, the module has no static): calls[c] holds them for call   *)
(* c, and a step is one statement of one call.                              *)

\* at most this many calls at a time, each on one of ConcurrentInputs
MaxCalls == 2
ConcurrentInputs == {"[[a]]", "==h==<i id=x>t</i>"}

CallLocals(doc) ==
    [pc |-> "preprocess", content |-> doc, processed |-> "", parser |-> NoParser,
     events |-> <<>>, in_code_block |-> FALSE, code_lang |-> "", html_output |-> ""]

\* a buffer that all calls share: every call reads the one of the first call
html_output_shared(cs, c) == cs[1].html_output
\* the html_output that a statement of call c reads: the call's own String
html_output_of(cs, c) == cs[c].html_output

\* the locals of call c after its next statement
render_step(cs, c) ==
    LET l == cs[c]
        html == html_output_of(cs, c)
    IN CASE l.pc = "preprocess" ->
              IF preprocess_panics(l.content) THEN [l EXCEPT !.pc = "panicked"]
              ELSE [l EXCEPT !.pc = "parse", !.processed = preprocess_obsidian_syntax(l.content)]
         [] l.pc = "parse" ->
              [l EXCEPT !.pc = "loop", !.parser = ParserOver(Parser_new_ext(l.processed)),
                        !.events = <<>>, !.in_code_block = FALSE, !.code_lang = ""]
         [] l.pc = "loop" /\ HasNext(l.parser) ->
              Strict(transform_event(NextEvent(l.parser), l.in_code_block, l.code_lang), LAMBDA r :
                  [l EXCEPT !.events = Append(@, r.ev), !.in_code_block = r.in_code_block,
                            !.code_lang = r.code_lang, !.parser.yielded = @ + 1])
         [] l.pc = "loop" /\ ~HasNext(l.parser) ->
              [l EXCEPT !.pc = "callouts", !.html_output = push_html("", l.events)]
         [] l.pc = "callouts" ->
              IF IndexPanics(callout_re, html, callout_indexed) THEN [l EXCEPT !.pc = "panicked"]
              ELSE [l EXCEPT !.pc = "highlights", !.html_output = postprocess_callouts(html)]
         [] l.pc = "highlights" ->
              [l EXCEPT !.pc = "mermaid", !.html_output = postprocess_highlights(html)]
         [] l.pc = "mermaid" ->
              IF IndexPanics(mermaid_re, html, mermaid_indexed) THEN [l EXCEPT !.pc = "panicked"]
              ELSE [l EXCEPT !.pc = "sanitize", !.html_output = postprocess_mermaid_diagrams(html)]
         [] l.pc = "sanitize" ->
              [l EXCEPT !.pc = "done", !.html_output = sanitize_html(html)]

ConcurrentInit ==
    /\ pc = "concurrent"
    /\ content = ""
    /\ \E n \in 1..MaxCalls : calls \in [1..n -> {CallLocals(doc) : doc \in ConcurrentInputs}]
    /\ processed = "" /\ called = <<>> /\ tags = <<>> /\ links = <<>>
    /\ max_length = 0 /\ result = "" /\ RenderIdle /\ StoreIdle

\* one statement of call c
CallStep(c) ==
    /\ pc = "concurrent"
    /\ calls[c].pc \notin {"done", "panicked"}
    /\ calls' = [calls EXCEPT ![c] = render_step(calls, c)]
    /\ UNCHANGED <<pc, content, processed, called, tags, links, max_length, result, renderVars,
                   storeVars>>

ConcurrentNext == \E c \in DOMAIN calls : CallStep(c)
SpecConcurrent == ConcurrentInit /\ [][ConcurrentNext]_vars

\* what render returns for a document when the call runs alone
RenderAlone == [doc \in ConcurrentInputs |-> Pipeline(doc)]

\* C16: whatever the interleaving of the statements of the calls, a call that
\* has returned has returned the HTML that a call alone returns for its
\* document, no call fails, and calls on equal documents return equal HTML.
C16_ConcurrentCallsReturnAsAlone ==
    \A c \in DOMAIN calls :
        /\ calls[c].pc # "panicked"
        /\ calls[c].pc = "done" =>
              /\ calls[c].html_output = RenderAlone[calls[c].content]
              /\ \A d \in DOMAIN calls :
                    (calls[d].pc = "done" /\ calls[d].content = calls[c].content) =>
                        calls[d].html_output = calls[c].html_output
\* two calls on different documents have returned, each its own HTML
C16_Witness ==
    /\ DOMAIN calls = {1, 2}
    /\ calls[1].pc = "done" /\ calls[2].pc = "done"
    /\ calls[1].content = "[[a]]" /\ calls[2].content = "==h==<i id=x>t</i>"
    /\ calls[1].html_output # calls[2].html_output
    /\ Contains(calls[2].html_output, "<mark")

---------------------------------------------------------------------------
(* What the preprocessor leaves alone, and what it makes of embeds and of   *)
(* block references.                                                        *)

\* the tags of s as constructs: each match of tag_re from its '#' on, without
\* the white space that the pattern takes in before it
TagConstructs(s) ==
    Strict(captures_iter(tag_re, s), LAMBDA ms :
        [k \in 1..Len(ms) |-> [ms[k] EXCEPT !.start = ms[k].caps[1][1] - 1]])
\* the element written for a tag
TagElement(s, m) == TrimStart(tag_repl(s, m))
\* s with its tags replaced by their elements and nothing else changed
TagsReplaced(s) == ReplaceMatches(s, TagConstructs(s), TagElement)

\* C17: the preprocessor changes only the characters of the constructs: the
\* wiki-link, block-reference and embed passes replace what their patterns
\* match, and the tag pass replaces each tag, '#' and name, by its element
\* and leaves every other character, the white space or newline before the
\* tag included, as it was.
C17_OnlyConstructsChange ==
    Returned("preprocess_obsidian_syntax") =>
        processed = embed_rule(block_id_rule(TagsReplaced(wiki_link_rule(content))))

\* C18: for every embed ![[resource]] of the document the output holds the
\* img element of the resource, src /api/assets/<slug> and loading lazy, if
\* its name ends in an image extension, and the embed div of the resource
\* otherwise.
C18_EmbedsBecomeImagesOrPlaceholders ==
    Returned("preprocess_obsidian_syntax") =>
        \A k \in 1..Len(Embeds(content)) :
            LET resource == Cap(content, Embeds(content)[k], 1)
            IN /\ is_image(resource) =>
                    /\ Contains(processed, "<img src=\"/api/assets/" \o slugify(resource) \o "\"")
                    /\ Contains(processed, "loading=\"lazy\"")
               /\ ~is_image(resource) =>
                    /\ Contains(processed, "<div class=\"obsidian-embed\" data-page=\"" \o resource \o "\"")
                    /\ Contains(processed, " " \o resource \o "</div>")

\* the block references of s that end a line or the text: a '^', then a run
\* of letters, digits and hyphens up to a newline or the end
BlockIdChars == AlphaNum \cup {"-"}
LineEnds(s) == {j \in 1..Len(s) : j = Len(s) \/ Ch(s, j + 1) = "\n"}
LineEndBlockIds(s) ==
    {id \in {SubSeq(s, i + 1, j) : i \in {p \in 1..Len(s) : Ch(s, p) = "^"}, j \in LineEnds(s)} :
        id # "" /\ \A k \in 1..Len(id) : Ch(id, k) \in BlockIdChars}

\* C19: every block reference that ends a line of the document, or the
\* document, is replaced by an empty span with id="block-<id>" and
\* data-block-id="<id>".
C19_BlockReferencesAtLineEnds ==
    Returned("preprocess_obsidian_syntax") =>
        \A id \in LineEndBlockIds(content) :
            Contains(processed, "<span class=\"block-ref\" id=\"block-" \o id
                                \o "\" data-block-id=\"" \o id \o "\"></span>")

---------------------------------------------------------------------------
(* fn slugify called on a title.                                            *)

\* titles: at most this many pieces of SlugPieces
MaxSlugPieces == 3
SlugPieces == {"A", "b", "1", " ", "-", "_", "!?", "My Page"}
SlugInputs == Concats(SlugPieces, MaxSlugPieces)

SlugInit ==
    /\ pc = "slugify"
    /\ content \in SlugInputs
    /\ max_length = 0
    /\ TextIdle

CallSlugify ==
    /\ pc = "slugify" /\ called = <<>>
    /\ result' = slugify(content)
    /\ called' = <<"slugify">>
    /\ UNCHANGED textFrame

SpecSlug == SlugInit /\ [][CallSlugify]_vars

\* s with every maximal run of characters that are not alphanumeric replaced
\* by one hyphen
NonAlphaNumRun == RPlus(RNot(AlphaNum))
Hyphen(s, m) == "-"
RunsToHyphens(s) == replace_all(NonAlphaNumRun, s, Hyphen)
\* s without a hyphen at its start and at its end
StripHyphen(s) ==
    SubSeq(s, IF StartsWith(s, "-") THEN 2 ELSE 1,
              IF EndsWith(s, "-") /\ Len(s) > 1 THEN Len(s) - 1 ELSE Len(s))

\* C20: a slug is made of lower-case letters, digits and hyphens, does not
\* start or end with a hyphen and has no two hyphens in a row; it is the
\* title in lower case with every maximal run of other characters replaced by
\* one hyphen and the runs at the two ends removed; the slug of a slug is the
\* slug.
C20_SlugIsNormalForm ==
    Returned("slugify") =>
        /\ \A i \in 1..Len(result) : Ch(result, i) \in Lower \cup Digit \cup {"-"}
        /\ ~StartsWith(result, "-") /\ ~EndsWith(result, "-") /\ ~Contains(result, "--")
        /\ result = StripHyphen(RunsToHyphens(to_lowercase(content)))
        /\ slugify(result) = result
\* a title with capitals, a space and punctuation at both ends
C20_Witness ==
    /\ Returned("slugify")
    /\ content = "!?My Page_"
    /\ result = "my-page"

---------------------------------------------------------------------------
(* The loop `for event in parser` of render_obsidian_markdown over event    *)
(* sequences given as such: sequences of fenced code blocks with and        *)
(* without a language, indented code blocks and paragraphs.                 *)

\* every concatenation of at most n sequences of P
RECURSIVE SeqConcats(_, _)
SeqConcats(P, n) ==
    IF n = 0 THEN {<<>>}
    ELSE LET shorter == SeqConcats(P, n - 1)
         IN shorter \cup {s \o p : s \in shorter, p \in P}

\* event sequences: at most this many blocks of LoopBlocks
MaxLoopBlocks == 3
LoopBlocks ==
    {<<EvStart("CodeBlockFenced", "js"), EvText("a<b\n"), EvEnd("CodeBlock")>>,
     <<EvStart("CodeBlockFenced", "mermaid"), EvText("graph\n"), EvEnd("CodeBlock")>>,
     <<EvStart("CodeBlockFenced", ""), EvText("x\n"), EvEnd("CodeBlock")>>,
     <<EvStart("CodeBlockIndented", ""), EvText("y\n"), EvEnd("CodeBlock")>>,
     <<EvStart("Paragraph", ""), EvText("t"), EvEnd("Paragraph")>>}
LoopInputs == SeqConcats(LoopBlocks, MaxLoopBlocks)

LoopInit ==
    /\ pc = "loop"
    /\ content = "" /\ processed = "" /\ called = <<>> /\ tags = <<>> /\ links = <<>>
    /\ parser \in {ParserOver(evs) : evs \in LoopInputs}
    /\ events = <<>> /\ in_code_block = FALSE /\ code_lang = "" /\ html_output = ""
    /\ RestIdle

LoopNext == LoopStep \/ PushHtml
SpecLoop == LoopInit /\ [][LoopNext]_vars

\* the language of the code block that event ev starts
BlockLanguage(ev) == IF ev.tag = "CodeBlockFenced" THEN ev.s ELSE ""
\* the fragment pushed for a block start shows language lang
ShowsLanguage(html, lang) ==
    /\ StartsWith(html, "<div class=\"code-block\" data-lang=\"" \o lang \o "\">")
    /\ Contains(html, "<span class=\"code-lang\">" \o (IF lang = "" THEN "text" ELSE lang) \o "</span>")
    /\ EndsWith(html, "<pre><code class=\"language-" \o lang \o "\">")

\* C21: the fragment pushed for each code block start carries the language
\* of that block, the empty string for an indented block and for a fence
\* without language, in data-lang and in the language- class, and shows it,
\* or "text" when it is empty, in the header; between blocks the loop's
\* language is empty.
C21_EachBlockCarriesItsOwnLanguage ==
    pc \in {"loop", "callouts"} =>
        /\ Len(events) = parser.yielded
        /\ \A k \in 1..parser.yielded :
              IsCodeBlockStart(parser.events[k]) =>
                  /\ events[k].k = "Html"
                  /\ ShowsLanguage(events[k].s, BlockLanguage(parser.events[k]))
        /\ ~in_code_block => code_lang = ""
\* an indented block after a fenced block with a language: both started
C21_Witness ==
    /\ pc = "loop" /\ parser.yielded >= 4
    /\ parser.events[1] = EvStart("CodeBlockFenced", "js")
    /\ parser.events[4] = EvStart("CodeBlockIndented", "")
    /\ ShowsLanguage(events[1].s, "js")
    /\ ShowsLanguage(events[4].s, "")

---------------------------------------------------------------------------
(* The three rewrites of lines 151-153 as functions of their own: each is   *)
(* applied to serialized HTML as push_html writes it, in any order and      *)
(* more than once.                                                          *)

\* first paragraphs of a blockquote
CalloutParagraphs ==
    {"<p>[!tip] Title</p>\n", "<p>[!note]</p>\n", "<p>[!tip]\nbody</p>\n",
     "<p>[!zz] Title\nbody ==h==</p>\n"}
\* blocks that are no blockquote
PlainBlocks ==
    {"<p>a ==x== b</p>\n", "<p>====c==</p>\n",
     "<pre><code class=\"language-mermaid\">a ==x== b\n</code></pre>\n"}
Blockquote(first, later) == "<blockquote>\n" \o first \o later \o "</blockquote>\n"
\* blockquotes nested at most this deep
MaxQuoteDepth == 2
RECURSIVE PostBlocks(_)
PostBlocks(depth) ==
    IF depth = 0 THEN PlainBlocks
    ELSE LET inner == PostBlocks(depth - 1)
         IN inner \cup {Blockquote(first, later) :
                           first \in CalloutParagraphs, later \in inner \cup {""}}
PostInputs == PostBlocks(MaxQuoteDepth)

\* the rewrite calls of lines 151, 152 and 153
PostCalls == 3
PostInit ==
    /\ pc = "post"
    /\ content \in PostInputs
    /\ html_output = content
    /\ processed = "" /\ called = <<>> /\ tags = <<>> /\ links = <<>>
    /\ parser = NoParser /\ events = <<>> /\ in_code_block = FALSE /\ code_lang = ""
    /\ RestIdle
postFrame == <<pc, content, processed, tags, links, parser, events, in_code_block,
               code_lang, restVars>>
CallCallouts ==
    /\ pc = "post" /\ Len(called) < PostCalls
    /\ html_output' = postprocess_callouts(html_output)
    /\ called' = Append(called, "postprocess_callouts")
    /\ UNCHANGED postFrame
CallHighlights ==
    /\ pc = "post" /\ Len(called) < PostCalls
    /\ html_output' = postprocess_highlights(html_output)
    /\ called' = Append(called, "postprocess_highlights")
    /\ UNCHANGED postFrame
CallMermaid ==
    /\ pc = "post" /\ Len(called) < PostCalls
    /\ html_output' = postprocess_mermaid_diagrams(html_output)
    /\ called' = Append(called, "postprocess_mermaid_diagrams")
    /\ UNCHANGED postFrame
PostNext == CallCallouts \/ CallHighlights \/ CallMermaid
SpecPost == PostInit /\ [][PostNext]_vars


\* the rewrites applied so far are exactly fs, in this order
Applied(fs) == pc = "post" /\ called = fs

QuoteOpen == "<blockquote>\n<p>[!"
\* h is a blockquote whose first paragraph starts with [!<type>]
StartsCallout(h) == StartsWith(h, QuoteOpen) /\ find(h, "]") > Len(QuoteOpen)
TypeLabel(h) == SubSeq(h, Len(QuoteOpen) + 1, find(h, "]"))
AfterLabel(h) == SubSeq(h, find(h, "]") + 2, Len(h))
SkipSpaces(s) ==
    IF \A i \in 1..Len(s) : Ch(s, i) \in Space THEN ""
    ELSE SubSeq(s, Min({i \in 1..Len(s) : Ch(s, i) \notin Space}), Len(s))
\* the text after [!<type>] on its line, without the white space before it
SameLineTitle(h) ==
    LET rest == AfterLabel(h)
        stop == Min({find(rest, "</p>")} \cup (Occurrences(rest, "\n")))
    IN SkipSpaces(SubSeq(rest, 1, stop))
\* the lines of the first paragraph after the first
FurtherLines(h) ==
    LET rest == AfterLabel(h)
        close == find(rest, "</p>")
        break == find(rest, "\n")
    IN IF break < close THEN SubSeq(rest, break + 2, close) ELSE ""
\* the blocks of the blockquote after its first paragraph
LaterBlocks(h) ==
    LET rest == AfterLabel(h)
    IN SubSeq(rest, find(rest, "</p>") + 5, find_last(rest, "</blockquote>"))
ContentOpen == "<div class=\"callout-content\">"
\* what the callout-content wrapper of out holds
ContentOf(out) ==
    IF find(out, ContentOpen) = -1 THEN ""
    ELSE SubSeq(out, find(out, ContentOpen) + Len(ContentOpen) + 1, Len(out))

\* C22: the callout rewrite turns a blockquote whose first paragraph starts
\* with [!<type>] into a div with the class callout-<color> and the
\* data-callout-type of the lookup of <type>; the title is the text after
\* [!<type>] on its line, or the type label when there is none; the further
\* lines of the first paragraph and the later blocks are in the
\* callout-content wrapper as they were.
C22_CalloutRewrite ==
    Applied(<<"postprocess_callouts">>) /\ StartsCallout(content) =>
        LET callout_type == CalloutType_from_str(TypeLabel(content))
            title == IF SameLineTitle(content) = "" THEN TypeLabel(content)
                     ELSE SameLineTitle(content)
        IN /\ StartsWith(html_output,
                  "<div class=\"callout callout-" \o callout_type.color
                  \o "\" data-callout-type=\"" \o callout_type.name \o "\">")
           /\ Contains(html_output, "<span class=\"callout-title\">" \o title \o "</span>")
           /\ Contains(ContentOf(html_output), FurtherLines(content))
           /\ Contains(ContentOf(html_output), LaterBlocks(content))


---------------------------------------------------------------------------
(* The colour classes of CalloutType::from_str against the class list of   *)
(* sanitize_html.                                                           *)

ColorClass(callout_type) == "callout-" \o callout_type.color
\* the callout div that line 239 formats for a type, with title and body "x"
CalloutDiv(callout_type) ==
    callout_fmt(callout_type.color, callout_type.name, callout_type.icon, "x", "x")

\* C23: for every label the class callout-<color> of the type that from_str
\* returns is among the classes the sanitizer allows on div, and the
\* sanitizer keeps it on the callout div formatted for that type.
C23_ColorClassIsAllowed ==
    Returned("from_str") =>
        /\ ColorClass(result) \in ClassesAllowedOn("div")
        /\ StartsWith(sanitize_html(CalloutDiv(result)),
                      "<div class=\"callout " \o ColorClass(result) \o "\"")
\* an unknown label: the default colour, kept
C23_Witness ==
    /\ Returned("from_str") /\ to_lowercase(content) \notin KnownLabels
    /\ result.color = "surface2"
    /\ "callout-surface2" \in allowed_classes["div"]
    /\ Contains(sanitize_html(CalloutDiv(result)), "callout-surface2")

\* the class words of an element
ClassWords(el) == UNION {Range(class_words(v)) : v \in AttrOf(el, "class")}
\* the classes of an element that the sanitizer's list for its tag lacks
StrippedClasses(el) == ClassWords(el) \ ClassesAllowedOn(el.name)

\* C24: when the document has no class attribute of its own, every class on
\* an element of the HTML handed to the sanitizer, which the preprocessor,
\* the loop and the postprocessors put there, is allowed for the element's
\* tag, so the sanitizer strips none.
C24_EmittedClassesAreAllowed ==
    pc = "sanitize" /\ ~Contains(content, "class") =>
        Strict(Elements(html_output), LAMBDA els :
            \A k \in 1..Len(els) : StrippedClasses(els[k]) = {})


\* the rewrite behind a name of `called`
Rewrite(f, html) ==
    CASE f = "postprocess_callouts" -> postprocess_callouts(html)
      [] f = "postprocess_highlights" -> postprocess_highlights(html)
      [] f = "postprocess_mermaid_diagrams" -> postprocess_mermaid_diagrams(html)
RewriteNames == {"postprocess_callouts", "postprocess_highlights", "postprocess_mermaid_diagrams"}

\* C25: a rewrite applied a second time in a row changes nothing.
C25_RewritesAreIdempotent ==
    [][\A f \in RewriteNames :
          called # <<>> /\ called[Len(called)] = f /\ called' = Append(called, f)
              => html_output' = html_output]_vars

\* C26: the three rewrites applied once each, in any order, give what the
\* order of lines 151-153 gives.
C26_RewritesCommute ==
    pc = "post" /\ Len(called) = 3 /\ Range(called) = RewriteNames =>
        html_output = postprocess_mermaid_diagrams(
                          postprocess_highlights(postprocess_callouts(content)))


---------------------------------------------------------------------------
(* The table posts and the functions of db.rs over it. A row keeps the       *)
(* columns the handlers decide on: id, slug, title, published,               *)
(* published_at, updated_at, author_id, and the tag ids of its post_tags     *)
(* rows. posts[id] is Some(row), or None once the row is deleted. A request  *)
(* body is a record of Options: CreatePostRequest has every field, the      *)
(* fields of UpdatePostRequest may be None.                                 *)

None == <<>>
Some(x) == <<x>>
IsSome(o) == o # <<>>
Unwrap(o) == o[1]
\* Option<row> of fetch_optional: any one of the rows that match
FetchOptional(rows) == IF rows = {} THEN {None} ELSE {Some(r) : r \in rows}

\* at most this many rows are ever inserted
MaxPosts == 2
\* the clock stops here
MaxClock == 3
\* at most this many requests are in flight
MaxRequests == 2

Rows(table) == {table[i][1] : i \in {j \in DOMAIN table : table[j] # None}}

\* WHERE p.published = true
list_published_posts(table) == {p \in Rows(table) : p.published}
\* WHERE p.slug = $1 AND p.published = true
get_post_by_slug(table, slug) == {p \in Rows(table) : p.slug = slug /\ p.published}
\* WHERE p.slug = $1
get_post_by_slug_any(table, slug) == {p \in Rows(table) : p.slug = slug}
\* WHERE p.id = $1
get_post_by_id(table, id) == IF id \in DOMAIN table THEN table[id] ELSE None
\* p.title ILIKE $1 OR ... OR p.slug ILIKE $1, with $1 = %query%
ILike(text, query) == Contains(to_lowercase(text), to_lowercase(query))
db_search_posts(table, query) ==
    {p \in Rows(table) : ILike(p.title, query) \/ ILike(p.slug, query)}
\* the posts that share a tag with post_id: WHERE p.id != $1 AND p.published = true
get_related_posts(table, post_id) ==
    LET of_post == UNION {p.tags : p \in {r \in Rows(table) : r.id = post_id}}
    IN {p \in Rows(table) : p.id # post_id /\ p.published /\ p.tags \cap of_post # {}}
\* WHERE p.published = true AND p.id IN (the posts tagged $1)
db_get_posts_by_tag(table, tag_name) ==
    {p \in Rows(table) : p.published /\ tag_name \in p.tags}

\* INSERT INTO posts ...: id is a fresh Uuid, the two timestamps are Utc::now()
db_create_post(table, req, author_id, t) ==
    Append(table, Some([id |-> Len(table) + 1, slug |-> Unwrap(req.slug),
                        title |-> Unwrap(req.title), published |-> req.published,
                        published_at |-> IF req.published THEN Some(t) ELSE None,
                        updated_at |-> t, author_id |-> author_id,
                        tags |-> Unwrap(req.tags)]))
\* the row of id, changed by Change, when the row is there
UpdateWhereId(table, id, Change(_)) ==
    IF id \in DOMAIN table /\ table[id] # None
    THEN [table EXCEPT ![id] = Some(Change(table[id][1]))]
    ELSE table
\* UPDATE posts SET <column> = $1, updated_at = $2 WHERE id = $3, for each
\* field of the request that is Some
db_update_post(table, id, req, t) ==
    UpdateWhereId(table, id, LAMBDA p :
        [p EXCEPT !.slug = IF IsSome(req.slug) THEN Unwrap(req.slug) ELSE @,
                  !.title = IF IsSome(req.title) THEN Unwrap(req.title) ELSE @,
                  !.updated_at = IF IsSome(req.slug) \/ IsSome(req.title) THEN t ELSE @,
                  !.tags = IF IsSome(req.tags) THEN Unwrap(req.tags) ELSE @])
\* DELETE FROM posts WHERE id = $1
db_delete_post(table, id) ==
    IF id \in DOMAIN table THEN [table EXCEPT ![id] = None] ELSE table
\* UPDATE posts SET published = true, published_at = $1, updated_at = $2 WHERE id = $3
db_publish_post(table, id, t) ==
    UpdateWhereId(table, id, LAMBDA p :
        [p EXCEPT !.published = TRUE, !.published_at = Some(t), !.updated_at = t])
\* an unpublish that leaves the date
db_unpublish_post_keeps_date(table, id, t) ==
    UpdateWhereId(table, id, LAMBDA p : [p EXCEPT !.published = FALSE, !.updated_at = t])
\* UPDATE posts SET published = false, published_at = NULL, updated_at = $1 WHERE id = $2
db_unpublish_post(table, id, t) ==
    UpdateWhereId(table, id, LAMBDA p :
        [p EXCEPT !.published = FALSE, !.published_at = None, !.updated_at = t])

\* handlers/admin.rs
is_valid_slug(slug) ==
    /\ \A i \in 1..Len(slug) : Ch(slug, i) \in Lower \cup Digit \cup {"-"}
    /\ ~StartsWith(slug, "-") /\ ~EndsWith(slug, "-") /\ ~Contains(slug, "--")


---------------------------------------------------------------------------
(* The handlers. A call is a request with its locals; a step of a call is   *)
(* one await on the pool with the code up to the next, so the statements of *)
(* the calls in flight interleave. The schema of posts (migrations/) is not  *)
(* among the sources: where a statement would store a second row with a     *)
(* slug, it either stores it or fails on a unique constraint.               *)

\* init_admin_user inserts the one user there is
Users == {"admin"}
Slugs == {"a", "b"}
TagIds == {"t"}
Queries == {"", "A"}
CreatePostRequests ==
    {[slug |-> Some(slug), title |-> Some("x"), tags |-> Some(TagIds), published |-> published] :
        slug \in Slugs \cup {"-a"}, published \in BOOLEAN}
UpdatePostRequests ==
    {[slug |-> slug, title |-> title, tags |-> None, published |-> FALSE] :
        slug \in {None} \cup {Some(s) : s \in Slugs}, title \in {None}}
NoRequest == [slug |-> None, title |-> None, tags |-> None, published |-> FALSE]

\* a response: the status, the message of an error (error: what the server
\* logs for it) and the posts of the body, each as the id, the slug and the
\* published flag of the row read
NoResponse == [status |-> "", msg |-> "", error |-> "", rows |-> {}]
Returned_post(p) == [id |-> p.id, slug |-> p.slug, published |-> p.published]
Ok(status, rows) ==
    [status |-> status, msg |-> "", error |-> "", rows |-> {Returned_post(p) : p \in rows}]
BadRequest(msg) == [status |-> "BadRequest", msg |-> msg, error |-> "", rows |-> {}]
NotFound(msg) == [status |-> "NotFound", msg |-> msg, error |-> "", rows |-> {}]
Forbidden(msg) == [status |-> "Forbidden", msg |-> msg, error |-> "", rows |-> {}]
\* AppError::Anyhow: 500 with a fixed message
Anyhow(error) ==
    [status |-> "InternalServerError", msg |-> "An internal error occurred",
     error |-> error, rows |-> {}]
UniqueViolation == "duplicate key value violates unique constraint"
InvalidSlug == "Invalid slug format. Use lowercase letters, numbers, and hyphens only."
SlugExists(slug) == "A post with slug '" \o slug \o "' already exists"

\* the locals of a call: the extractors' values, the Option of the first
\* lookup while it is used (existing in the admin handlers, post in get_post),
\* the id handed to the db function, and the response once it is sent
IdleCall ==
    [handler |-> "", user |-> "", slug |-> "", q |-> "", req |-> NoRequest, pc |-> "idle",
     existing |-> None, id |-> 0, response |-> NoResponse]
NewCall(handler, user, slug, q, req) ==
    [IdleCall EXCEPT !.handler = handler, !.user = user, !.slug = slug, !.q = q,
                     !.req = req, !.pc = "start"]
Finish(call, response) ==
    [call EXCEPT !.pc = "done", !.response = response, !.existing = None, !.id = 0]
At(call, label) == [call EXCEPT !.pc = label]
\* the call goes on with the id of the row it looked up
AtWithId(call, label) ==
    [call EXCEPT !.pc = label, !.id = Unwrap(call.existing).id, !.existing = None]
InFlight(call) == call.pc \notin {"idle", "done"}
\* a request arrives in the first slot that holds no call in flight
FreeSlot(c) == ~InFlight(calls[c]) /\ \A d \in 1..(c - 1) : InFlight(calls[d])
AtStep(c, handler, label) == calls[c].handler = handler /\ calls[c].pc = label

storeFrame == <<pc, content, processed, called, tags, links, max_length, result, renderVars>>

StoreInit ==
    /\ pc = "serve"
    /\ content = "" /\ processed = "" /\ called = <<>> /\ tags = <<>> /\ links = <<>>
    /\ max_length = 0 /\ result = "" /\ RenderIdle
    /\ calls = [c \in 1..MaxRequests |-> IdleCall]
    /\ posts = <<>> /\ now = 0

\* admin create_post up to db::create_post
CreatePost(c) ==
    /\ pc = "serve" /\ FreeSlot(c)
    /\ \E user \in Users, req \in CreatePostRequests :
         LET call == NewCall("create_post", user, "", "", req) IN
         calls' = [calls EXCEPT ![c] =
            IF ~is_valid_slug(Unwrap(req.slug)) THEN Finish(call, BadRequest(InvalidSlug))
            ELSE IF get_post_by_slug(posts, Unwrap(req.slug)) # {}
                 THEN Finish(call, BadRequest(SlugExists(Unwrap(req.slug))))
                 ELSE At(call, "create_post")]
    /\ UNCHANGED <<storeVars, storeFrame>>
\* db::create_post: the transaction
CreatePostInsert(c) ==
    /\ pc = "serve" /\ AtStep(c, "create_post", "create_post")
    /\ now < MaxClock /\ Len(posts) < MaxPosts
    /\ now' = now + 1
    /\ \/ /\ posts' = db_create_post(posts, calls[c].req, calls[c].user, now')
          /\ calls' = [calls EXCEPT ![c] = [At(@, "fetch") EXCEPT !.id = Len(posts) + 1]]
       \/ /\ get_post_by_slug_any(posts, Unwrap(calls[c].req.slug)) # {}
          /\ posts' = posts
          /\ calls' = [calls EXCEPT ![c] = Finish(@, Anyhow(UniqueViolation))]
    /\ UNCHANGED storeFrame

\* get_post_by_id at the end of the db functions that write
FetchPost(c) ==
    /\ pc = "serve" /\ calls[c].pc = "fetch"
    /\ LET post == get_post_by_id(posts, calls[c].id) IN
       calls' = [calls EXCEPT ![c] =
          IF IsSome(post)
          THEN Finish(@, Ok(IF @.handler = "create_post" THEN "Created" ELSE "OK", {Unwrap(post)}))
          ELSE Finish(@, Anyhow(IF @.handler = "create_post" THEN "Failed to fetch created post"
                                ELSE "Post not found"))]
    /\ UNCHANGED <<storeVars, storeFrame>>

\* admin update_post up to the first await after get_post_by_slug_any
UpdatePost(c) ==
    /\ pc = "serve" /\ FreeSlot(c)
    /\ \E user \in Users, slug \in Slugs, req \in UpdatePostRequests :
       \E existing \in FetchOptional(get_post_by_slug_any(posts, slug)) :
         LET call == [NewCall("update_post", user, slug, "", req) EXCEPT !.existing = existing] IN
         calls' = [calls EXCEPT ![c] =
            IF existing = None THEN Finish(call, NotFound("Post not found"))
            ELSE IF Unwrap(existing).author_id # user
                 THEN Finish(call, Forbidden("You don't have permission to update this post"))
            ELSE IF IsSome(req.slug) /\ ~is_valid_slug(Unwrap(req.slug))
                 THEN Finish(call, BadRequest(InvalidSlug))
            ELSE IF IsSome(req.slug) /\ Unwrap(req.slug) # Unwrap(existing).slug
                 THEN AtWithId(call, "get_post_by_slug")
            ELSE AtWithId(call, "update_post")]
    /\ UNCHANGED <<storeVars, storeFrame>>
\* update_post: is the new slug taken
UpdatePostCheck(c) ==
    /\ pc = "serve" /\ AtStep(c, "update_post", "get_post_by_slug")
    /\ calls' = [calls EXCEPT ![c] =
          IF get_post_by_slug(posts, Unwrap(@.req.slug)) # {}
          THEN Finish(@, BadRequest(SlugExists(Unwrap(@.req.slug))))
          ELSE At(@, "update_post")]
    /\ UNCHANGED <<storeVars, storeFrame>>
\* db::update_post: the transaction
UpdatePostWrite(c) ==
    /\ pc = "serve" /\ AtStep(c, "update_post", "update_post")
    /\ now < MaxClock
    /\ now' = now + 1
    /\ LET id == calls[c].id
           req == calls[c].req
       IN \/ /\ posts' = db_update_post(posts, id, req, now')
             /\ calls' = [calls EXCEPT ![c] = At(@, "fetch")]
          \/ /\ IsSome(req.slug) /\ IsSome(get_post_by_id(posts, id))
             /\ \E p \in get_post_by_slug_any(posts, Unwrap(req.slug)) : p.id # id
             /\ posts' = posts
             /\ calls' = [calls EXCEPT ![c] = Finish(@, Anyhow(UniqueViolation))]
    /\ UNCHANGED storeFrame

\* admin delete_post up to db::delete_post
DeletePost(c) ==
    /\ pc = "serve" /\ FreeSlot(c)
    /\ \E user \in Users, slug \in Slugs :
       \E existing \in FetchOptional(get_post_by_slug_any(posts, slug)) :
         LET call == [NewCall("delete_post", user, slug, "", NoRequest) EXCEPT !.existing = existing] IN
         calls' = [calls EXCEPT ![c] =
            IF existing = None THEN Finish(call, NotFound("Post not found"))
            ELSE IF Unwrap(existing).author_id # user
                 THEN Finish(call, Forbidden("You don't have permission to delete this post"))
            ELSE AtWithId(call, "delete_post")]
    /\ UNCHANGED <<storeVars, storeFrame>>
\* db::delete_post
DeletePostDelete(c) ==
    /\ pc = "serve" /\ AtStep(c, "delete_post", "delete_post")
    /\ posts' = db_delete_post(posts, calls[c].id)
    /\ calls' = [calls EXCEPT ![c] = Finish(@, Ok("NoContent", {}))]
    /\ UNCHANGED <<now, storeFrame>>

\* admin publish_post up to db::publish_post
PublishPost(c) ==
    /\ pc = "serve" /\ FreeSlot(c)
    /\ \E user \in Users, slug \in Slugs :
       \E existing \in FetchOptional(get_post_by_slug_any(posts, slug)) :
         LET call == [NewCall("publish_post", user, slug, "", NoRequest) EXCEPT !.existing = existing] IN
         calls' = [calls EXCEPT ![c] =
            IF existing = None THEN Finish(call, NotFound("Post not found"))
            ELSE IF Unwrap(existing).author_id # user
                 THEN Finish(call, Forbidden("You don't have permission to publish this post"))
            ELSE IF Unwrap(existing).published
                 THEN Finish(call, BadRequest("Post is already published"))
            ELSE AtWithId(call, "publish_post")]
    /\ UNCHANGED <<storeVars, storeFrame>>
\* db::publish_post: the UPDATE
PublishPostWrite(c) ==
    /\ pc = "serve" /\ AtStep(c, "publish_post", "publish_post")
    /\ now < MaxClock
    /\ now' = now + 1
    /\ posts' = db_publish_post(posts, calls[c].id, now')
    /\ calls' = [calls EXCEPT ![c] = At(@, "fetch")]
    /\ UNCHANGED storeFrame

\* admin unpublish_post up to db::unpublish_post
UnpublishPost(c) ==
    /\ pc = "serve" /\ FreeSlot(c)
    /\ \E user \in Users, slug \in Slugs :
       \E existing \in FetchOptional(get_post_by_slug(posts, slug)) :
         LET call == [NewCall("unpublish_post", user, slug, "", NoRequest) EXCEPT !.existing = existing] IN
         calls' = [calls EXCEPT ![c] =
            IF existing = None THEN Finish(call, NotFound("Post not found"))
            ELSE IF Unwrap(existing).author_id # user
                 THEN Finish(call, Forbidden("You don't have permission to unpublish this post"))
            ELSE IF ~Unwrap(existing).published
                 THEN Finish(call, BadRequest("Post is already unpublished"))
            ELSE AtWithId(call, "unpublish_post")]
    /\ UNCHANGED <<storeVars, storeFrame>>
\* db::unpublish_post: the UPDATE
UnpublishPostWrite(c) ==
    /\ pc = "serve" /\ AtStep(c, "unpublish_post", "unpublish_post")
    /\ now < MaxClock
    /\ now' = now + 1
    /\ posts' = db_unpublish_post(posts, calls[c].id, now')
    /\ calls' = [calls EXCEPT ![c] = At(@, "fetch")]
    /\ UNCHANGED storeFrame


\* handlers/posts.rs list_posts
ListPosts(c) ==
    /\ pc = "serve" /\ FreeSlot(c)
    /\ calls' = [calls EXCEPT ![c] =
          Finish(NewCall("list_posts", "", "", "", NoRequest), Ok("OK", list_published_posts(posts)))]
    /\ UNCHANGED <<storeVars, storeFrame>>
\* handlers/posts.rs get_post up to get_related_posts
GetPost(c) ==
    /\ pc = "serve" /\ FreeSlot(c)
    /\ \E slug \in Slugs :
       \E post \in FetchOptional(get_post_by_slug(posts, slug)) :
         LET call == [NewCall("get_post", "", slug, "", NoRequest) EXCEPT !.existing = post] IN
         calls' = [calls EXCEPT ![c] =
            IF post = None THEN Finish(call, NotFound("Post '" \o slug \o "' not found"))
            ELSE At(call, "get_related_posts")]
    /\ UNCHANGED <<storeVars, storeFrame>>
\* get_post: the related posts (LIMIT 5) and the response
GetPostRelated(c) ==
    /\ pc = "serve" /\ AtStep(c, "get_post", "get_related_posts")
    /\ calls' = [calls EXCEPT ![c] =
          Finish(@, Ok("OK", {Unwrap(calls[c].existing)}
                             \cup get_related_posts(posts, Unwrap(calls[c].existing).id)))]
    /\ UNCHANGED <<storeVars, storeFrame>>
\* a search handler that maps every row
public_search_unfiltered(rows) == rows
\* main.rs public_search: .filter(|p| p.published)
public_search_filter(rows) == {p \in rows : p.published}
PublicSearch(c) ==
    /\ pc = "serve" /\ FreeSlot(c)
    /\ \E q \in Queries :
         calls' = [calls EXCEPT ![c] =
            Finish(NewCall("public_search", "", "", q, NoRequest),
                   IF Trim(q) = "" THEN Ok("OK", {})
                   ELSE Ok("OK", public_search_filter(db_search_posts(posts, q))))]
    /\ UNCHANGED <<storeVars, storeFrame>>
\* handlers/posts.rs get_posts_by_tag
GetPostsByTag(c) ==
    /\ pc = "serve" /\ FreeSlot(c)
    /\ \E tag_name \in TagIds :
         calls' = [calls EXCEPT ![c] =
            Finish(NewCall("get_posts_by_tag", "", "", tag_name, NoRequest),
                   Ok("OK", db_get_posts_by_tag(posts, tag_name)))]
    /\ UNCHANGED <<storeVars, storeFrame>>

StoreNext ==
    \E c \in 1..MaxRequests :
        \/ CreatePost(c) \/ CreatePostInsert(c) \/ FetchPost(c)
        \/ UpdatePost(c) \/ UpdatePostCheck(c) \/ UpdatePostWrite(c)
        \/ DeletePost(c) \/ DeletePostDelete(c)
        \/ PublishPost(c) \/ PublishPostWrite(c)
        \/ UnpublishPost(c) \/ UnpublishPostWrite(c)
        \/ ListPosts(c) \/ GetPost(c) \/ GetPostRelated(c) \/ PublicSearch(c) \/ GetPostsByTag(c)
SpecStore == StoreInit /\ [][StoreNext]_vars


---------------------------------------------------------------------------
(* Properties of the handlers over the table.                               *)

Serving == pc = "serve"
SlugsInUse(table) == {p.slug : p \in Rows(table)}
NoTwoPostsShareASlug == \A p, r \in Rows(posts) : p.slug = r.slug => p.id = r.id
\* in this step a request arrives in slot c
Arrives(c) == ~InFlight(calls[c]) /\ calls'[c] # calls[c]

\* C27: whatever the sequence and interleaving of create_post and update_post
\* requests, no two stored posts have the same slug, and the request that
\* would give a second post a slug is turned down with BadRequest: none
\* reaches the table and fails there.
C27_SlugsStayUnique ==
    Serving =>
        /\ NoTwoPostsShareASlug
        /\ \A c \in DOMAIN calls : calls[c].response.error # UniqueViolation

\* C28: publish_post on a published post and unpublish_post on a draft of
\* the caller answer BadRequest, "Post is already published" and "Post is
\* already unpublished", and leave the table as it is.
C28_AlreadyInTargetState ==
    [][\A c \in 1..MaxRequests :
          LET call == calls'[c]
              rows == get_post_by_slug_any(posts, call.slug)
          IN Serving /\ Arrives(c) /\ rows # {} =>
               /\ call.handler = "publish_post" /\ (\A p \in rows : p.published)
                     => /\ call.response = BadRequest("Post is already published")
                        /\ posts' = posts
               /\ call.handler = "unpublish_post"
                  /\ (\A p \in rows : ~p.published /\ p.author_id = call.user)
                     => /\ call.response = BadRequest("Post is already unpublished")
                        /\ posts' = posts]_vars

\* C29: every stored post is published exactly when its published_at is set.
C29_PublishedIffPublishedAt ==
    Serving => \A p \in Rows(posts) : p.published <=> IsSome(p.published_at)
\* a post that was published and then unpublished
C29_Witness ==
    /\ Serving
    /\ \E c \in DOMAIN calls :
          /\ calls[c].handler = "unpublish_post" /\ calls[c].response.status = "OK"
          /\ \E p \in Rows(posts) :
                /\ p.id \in {r.id : r \in calls[c].response.rows}
                /\ ~p.published /\ p.published_at = None /\ p.updated_at > 1

PublicHandlers == {"list_posts", "get_post", "public_search", "get_posts_by_tag"}
\* C30: the public handlers return only posts that were published when read,
\* and get_post on a slug that only drafts have answers NotFound.
C30_PublicHandlersReturnPublishedOnly ==
    [][\A c \in 1..MaxRequests :
          LET call == calls'[c]
              rows == get_post_by_slug_any(posts, call.slug)
          IN Serving /\ call.handler \in PublicHandlers =>
               /\ \A r \in call.response.rows : r.published
               /\ IsSome(call.existing) => Unwrap(call.existing).published
               /\ Arrives(c) /\ call.handler = "get_post" /\ (\A p \in rows : ~p.published)
                     => call.response.status = "NotFound"]_vars
\* a search that matches a draft and a published post returns the published one
C30_Witness ==
    /\ Serving
    /\ \E c \in DOMAIN calls :
          /\ calls[c].handler = "public_search" /\ calls[c].response.rows # {}
          /\ \E p \in Rows(posts) : ~p.published /\ ILike(p.slug, calls[c].q)
          /\ \A r \in calls[c].response.rows : r.published

=============================================================================
